---- MODULE Spec2Model ----
(***************************************************************************)
(* Model of the shrimp-aquaculture carbon-footprint estimation engine      *)
(* (src/estimation): the per-source calculators as operators and the       *)
(* aggregator `estimate` as a single-pass state machine.                   *)
(*                                                                         *)
(* Python floats are modelled as exact rationals <<numerator, denominator>>*)
(* in lowest terms with a positive denominator.  Python's None is the      *)
(* empty tuple for an optional number and the record NoneRec for an        *)
(* optional record.                                                        *)
(***************************************************************************)
EXTENDS Integers, Sequences, FiniteSets, TLC

(***************************************************************************)
(* Bounds of the model.                                                    *)
(***************************************************************************)
MaxHarvest == 2
MaxDeviations == 1
MaxYears == 3
MaxOM == 3

(***************************************************************************)
(* Rational arithmetic (Python float +, -, *, /, comparisons).             *)
(***************************************************************************)
None == <<>>
NoneRec == [none |-> TRUE]

Abs(n) == IF n < 0 THEN -n ELSE n

RECURSIVE GCD(_, _)
GCD(a, b) == IF b = 0 THEN a ELSE GCD(b, a % b)

Rat(n, d) ==
    LET s == IF d < 0 THEN -1 ELSE 1
        g == GCD(Abs(n), Abs(d))
    IN  <<(s * n) \div g, (s * d) \div g>>

Q(n) == <<n, 1>>
Zero == Q(0)
One == Q(1)

Neg(x) == <<-x[1], x[2]>>

Add(x, y) ==
    LET g == GCD(x[2], y[2])
        l == (x[2] \div g) * y[2]
    IN  Rat(x[1] * (l \div x[2]) + y[1] * (l \div y[2]), l)

Sub(x, y) == Add(x, Neg(y))

Mul(x, y) ==
    IF x[1] = 0 \/ y[1] = 0 THEN Zero
    ELSE LET g1 == GCD(Abs(x[1]), y[2])
             g2 == GCD(Abs(y[1]), x[2])
         IN  <<(x[1] \div g1) * (y[1] \div g2), (x[2] \div g2) * (y[2] \div g1)>>

Inv(x) == IF x[1] < 0 THEN <<-x[2], -x[1]>> ELSE <<x[2], x[1]>>

Div(x, y) == Mul(x, Inv(y))

Lt(x, y) == Sub(x, y)[1] < 0
Le(x, y) == Sub(x, y)[1] <= 0
IsNeg(x) == x[1] < 0
IsPos(x) == x[1] > 0

RMax(x, y) == IF Lt(x, y) THEN y ELSE x
RMin(x, y) == IF Lt(y, x) THEN y ELSE x

(***************************************************************************)
(* Outcome of a calculator: a returned value or a raised ValueError.       *)
(***************************************************************************)
Ok(v) == [ok |-> TRUE, val |-> v, exc |-> "", err |-> ""]
RaiseExc(exc, msg) == [ok |-> FALSE, val |-> None, exc |-> exc, err |-> msg]
Raise(msg) == RaiseExc("ValueError", msg)

(***************************************************************************)
(* FeedEmissions.py                                                        *)
(***************************************************************************)
DEFAULT_FEED_EF_A == <<87, 10>>
DEFAULT_SEED_EF_A == <<23, 100>>

feed_ef_boundary_A_default(boundary, emission_intensity_kgco2e_per_kg) ==
    IF boundary = "B" /\ emission_intensity_kgco2e_per_kg # None
    THEN emission_intensity_kgco2e_per_kg
    ELSE DEFAULT_FEED_EF_A

feed_ef(boundary, emission_intensity_kgco2e_per_kg) ==
    IF emission_intensity_kgco2e_per_kg # None
    THEN emission_intensity_kgco2e_per_kg
    ELSE DEFAULT_FEED_EF_A

feed_emissions_kgco2e(total_feed_kg, boundary, emission_intensity_kgco2e_per_kg) ==
    IF IsNeg(total_feed_kg) THEN Raise("total_feed_kg must be >= 0")
    ELSE LET ef == feed_ef(boundary, emission_intensity_kgco2e_per_kg)
         IN  IF IsNeg(ef) THEN Raise("feed emission factor must be >= 0")
             ELSE Ok(Mul(total_feed_kg, ef))

seed_ef_default_only(emission_intensity_kgco2e_per_thousand_pl) ==
    DEFAULT_SEED_EF_A

seed_ef(emission_intensity_kgco2e_per_thousand_pl) ==
    IF emission_intensity_kgco2e_per_thousand_pl # None
    THEN emission_intensity_kgco2e_per_thousand_pl
    ELSE DEFAULT_SEED_EF_A

seed_emissions_kgco2e(thousand_pl, boundary, emission_intensity_kgco2e_per_thousand_pl) ==
    IF IsNeg(thousand_pl) THEN Raise("thousand_pl must be >= 0")
    ELSE LET ef == seed_ef(emission_intensity_kgco2e_per_thousand_pl)
         IN  IF IsNeg(ef) THEN Raise("seed emission factor must be >= 0")
             ELSE Ok(Mul(thousand_pl, ef))

(***************************************************************************)
(* Carbon_Sequestration.py                                                 *)
(***************************************************************************)
C_TO_CO2 == <<367, 100>>

VegetationTypes == {"Mangroves", "Tropical Forests", "Grasslands",
                    "Wetlands", "Temperate Forests", "Peatlands"}

AGB_TC_PER_HA ==
    [v \in VegetationTypes |->
        CASE v = "Mangroves" -> Q(150)
          [] v = "Tropical Forests" -> Q(120)
          [] v = "Grasslands" -> Q(40)
          [] v = "Wetlands" -> Q(60)
          [] v = "Temperate Forests" -> Q(100)
          [] v = "Peatlands" -> Q(70)]

ROOT_TO_SHOOT ==
    [v \in VegetationTypes |->
        CASE v = "Mangroves" -> <<9, 20>>
          [] v = "Tropical Forests" -> <<6, 25>>
          [] v = "Grasslands" -> <<1, 5>>
          [] v = "Wetlands" -> <<1, 2>>
          [] v = "Temperate Forests" -> <<1, 4>>
          [] v = "Peatlands" -> <<3, 10>>]

GROWTH_RATE ==
    [v \in VegetationTypes |->
        CASE v = "Mangroves" -> <<3, 200>>
          [] v = "Tropical Forests" -> <<3, 200>>
          [] v = "Grasslands" -> <<3, 100>>
          [] v = "Wetlands" -> <<1, 50>>
          [] v = "Temperate Forests" -> <<1, 50>>
          [] v = "Peatlands" -> <<1, 100>>]

SequestrationInputs(vegetation_type, area_ha) ==
    [vegetation_type |-> vegetation_type, area_ha |-> area_ha]

sequestration_kgco2e(inp) ==
    IF IsNeg(inp.area_ha) THEN Raise("area_ha must be >= 0")
    ELSE IF inp.vegetation_type \notin DOMAIN AGB_TC_PER_HA
    THEN RaiseExc("KeyError", inp.vegetation_type)
    ELSE LET veg == inp.vegetation_type
             agb == AGB_TC_PER_HA[veg]
             bgb == Mul(agb, ROOT_TO_SHOOT[veg])
             total_biomass_c == Add(agb, bgb)
             annual_c_increase_tC == Mul(Mul(total_biomass_c, GROWTH_RATE[veg]), inp.area_ha)
             annual_co2_t == Mul(annual_c_increase_tC, C_TO_CO2)
         IN  Ok(Mul(annual_co2_t, Q(1000)))

(***************************************************************************)
(* LULUC.py                                                                *)
(***************************************************************************)
SoilTypes == {"desert", "tropical", "temperate", "boreal", "peatland", "mangrove"}

DEFAULT_SOC_TONNES_C_PER_HA ==
    [s \in SoilTypes |->
        CASE s = "desert" -> <<Q(10), Q(8), Q(6)>>
          [] s = "tropical" -> <<Q(70), Q(55), Q(40)>>
          [] s = "temperate" -> <<Q(85), Q(70), Q(50)>>
          [] s = "boreal" -> <<Q(200), Q(150), Q(100)>>
          [] s = "peatland" -> <<Q(500), Q(400), Q(300)>>
          [] s = "mangrove" -> <<Q(300), Q(250), Q(200)>>]

\* The dataclass with every field at its default; soil_type and area_ha have none.
LulucInputs(soil_type, area_ha) ==
    [soil_type |-> soil_type, area_ha |-> area_ha,
     farm_age_years |-> None,
     years_since_conversion |-> None,
     cycle_days |-> Q(120),
     immediate_release_fraction |-> <<7, 10>>,
     immediate_window_years |-> Q(5),
     amortization_years |-> Q(20)]

\* Variant: the legacy farm_age_years wins over years_since_conversion.
resolve_years_since_conversion_legacy_first(inp) ==
    IF inp.farm_age_years # None THEN Ok(inp.farm_age_years)
    ELSE IF inp.years_since_conversion # None THEN Ok(inp.years_since_conversion)
    ELSE Raise("Provide either years_since_conversion or farm_age_years.")

resolve_years_since_conversion(inp) ==
    IF inp.years_since_conversion # None THEN Ok(inp.years_since_conversion)
    ELSE IF inp.farm_age_years # None THEN Ok(inp.farm_age_years)
    ELSE Raise("Provide either years_since_conversion or farm_age_years.")

\* Variant: the last amortization year is counted once more (<= for <).
luluc_emissions_kgco2e_per_year_inclusive(inp) ==
    IF IsNeg(inp.area_ha) THEN Raise("area_ha must be >= 0")
    ELSE IF ~IsPos(inp.cycle_days) THEN Raise("cycle_days must be > 0")
    ELSE IF ~IsPos(inp.amortization_years) THEN Raise("amortization_years must be > 0")
    ELSE LET ry == resolve_years_since_conversion(inp) IN
    IF ~ry.ok THEN ry
    ELSE LET y == ry.val IN
    IF IsNeg(y) THEN Raise("years_since_conversion (or farm_age_years) must be >= 0")
    ELSE LET imm_frac == RMax(Zero, RMin(One, inp.immediate_release_fraction)) IN
    IF inp.soil_type \notin DOMAIN DEFAULT_SOC_TONNES_C_PER_HA
    THEN RaiseExc("KeyError", inp.soil_type)
    ELSE LET soc_layers == DEFAULT_SOC_TONNES_C_PER_HA[inp.soil_type]
             total_soc_tC_per_ha == Add(Add(soc_layers[1], soc_layers[2]), soc_layers[3])
             total_loss_tC == Mul(total_soc_tC_per_ha, inp.area_ha)
             total_tco2 == Mul(total_loss_tC, C_TO_CO2)
             immediate_tco2_this_year ==
                 IF Le(y, inp.immediate_window_years) THEN Mul(total_tco2, imm_frac) ELSE Zero
             gradual_total_tco2 == Mul(total_tco2, Sub(One, imm_frac))
             gradual_tco2_this_year ==
                 IF Le(y, inp.amortization_years)
                 THEN Div(gradual_total_tco2, inp.amortization_years)
                 ELSE Zero
             annual_tco2 == Add(immediate_tco2_this_year, gradual_tco2_this_year)
         IN  Ok(Mul(annual_tco2, Q(1000)))

luluc_emissions_kgco2e_per_year(inp) ==
    IF IsNeg(inp.area_ha) THEN Raise("area_ha must be >= 0")
    ELSE IF ~IsPos(inp.cycle_days) THEN Raise("cycle_days must be > 0")
    ELSE IF ~IsPos(inp.amortization_years) THEN Raise("amortization_years must be > 0")
    ELSE LET ry == resolve_years_since_conversion(inp) IN
    IF ~ry.ok THEN ry
    ELSE LET y == ry.val IN
    IF IsNeg(y) THEN Raise("years_since_conversion (or farm_age_years) must be >= 0")
    ELSE LET imm_frac == RMax(Zero, RMin(One, inp.immediate_release_fraction)) IN
    IF inp.soil_type \notin DOMAIN DEFAULT_SOC_TONNES_C_PER_HA
    THEN RaiseExc("KeyError", inp.soil_type)
    ELSE LET soc_layers == DEFAULT_SOC_TONNES_C_PER_HA[inp.soil_type]
             total_soc_tC_per_ha == Add(Add(soc_layers[1], soc_layers[2]), soc_layers[3])
             total_loss_tC == Mul(total_soc_tC_per_ha, inp.area_ha)
             total_tco2 == Mul(total_loss_tC, C_TO_CO2)
             immediate_tco2_this_year ==
                 IF Le(y, inp.immediate_window_years) THEN Mul(total_tco2, imm_frac) ELSE Zero
             gradual_total_tco2 == Mul(total_tco2, Sub(One, imm_frac))
             gradual_tco2_this_year ==
                 IF Lt(y, inp.amortization_years)
                 THEN Div(gradual_total_tco2, inp.amortization_years)
                 ELSE Zero
             annual_tco2 == Add(immediate_tco2_this_year, gradual_tco2_this_year)
         IN  Ok(Mul(annual_tco2, Q(1000)))

luluc_emissions_kgco2e(inp) ==
    LET annual_kg == luluc_emissions_kgco2e_per_year(inp) IN
    IF ~annual_kg.ok THEN annual_kg
    ELSE LET cycle_fraction == Div(inp.cycle_days, Q(365))
         IN  Ok(Mul(annual_kg.val, cycle_fraction))

(***************************************************************************)
(* Aeration_energy.py                                                      *)
(***************************************************************************)
GridCountries == {"Mexico", "Vietnam", "Ecuador", "Brazil", "India", "Thailand"}

DEFAULT_GRID_EF_KG_PER_KWH ==
    [c \in GridCountries |->
        CASE c = "Mexico" -> <<83, 200>>
          [] c = "Vietnam" -> <<21, 40>>
          [] c = "Ecuador" -> <<103, 500>>
          [] c = "Brazil" -> <<37, 500>>
          [] c = "India" -> <<309, 500>>
          [] c = "Thailand" -> <<401, 1000>>]

FuelSources == {"diesel", "petrol"}

DEFAULT_FUEL_EF_KG_PER_LITER ==
    [f \in FuelSources |->
        CASE f = "diesel" -> <<66, 25>>
          [] f = "petrol" -> <<231, 100>>]

HP_TO_KW == <<7457, 10000>>
MJ_PER_KWH == <<18, 5>>

\* The dataclass with every field at its default; the first two have none.
AerationInputs(total_aeration_hp, operating_hours) ==
    [total_aeration_hp |-> total_aeration_hp, operating_hours |-> operating_hours,
     motor_efficiency |-> <<4, 5>>, blower_efficiency |-> One,
     energy_source |-> "grid", grid_country |-> "Mexico",
     grid_ef_kgco2e_per_kwh |-> None,
     fuel_ef_kgco2e_per_liter |-> None,
     diesel_lhv_mj_per_liter |-> Q(36),
     petrol_lhv_mj_per_liter |-> <<171, 5>>]

\* Variant: the blower efficiency is left out of the quotient.
aeration_energy_kwh_motor_only(inp) ==
    IF IsNeg(inp.total_aeration_hp) THEN Raise("total_aeration_hp must be >= 0")
    ELSE IF IsNeg(inp.operating_hours) THEN Raise("operating_hours must be >= 0")
    ELSE IF ~IsPos(inp.motor_efficiency) \/ Lt(One, inp.motor_efficiency)
    THEN Raise("motor_efficiency must be in (0,1]")
    ELSE IF ~IsPos(inp.blower_efficiency) \/ Lt(One, inp.blower_efficiency)
    THEN Raise("blower_efficiency must be in (0,1]")
    ELSE LET kw_mech == Mul(inp.total_aeration_hp, HP_TO_KW)
             kw_electric == Div(kw_mech, inp.motor_efficiency)
         IN  Ok(Mul(kw_electric, inp.operating_hours))

aeration_energy_kwh(inp) ==
    IF IsNeg(inp.total_aeration_hp) THEN Raise("total_aeration_hp must be >= 0")
    ELSE IF IsNeg(inp.operating_hours) THEN Raise("operating_hours must be >= 0")
    ELSE IF ~IsPos(inp.motor_efficiency) \/ Lt(One, inp.motor_efficiency)
    THEN Raise("motor_efficiency must be in (0,1]")
    ELSE IF ~IsPos(inp.blower_efficiency) \/ Lt(One, inp.blower_efficiency)
    THEN Raise("blower_efficiency must be in (0,1]")
    ELSE LET kw_mech == Mul(inp.total_aeration_hp, HP_TO_KW)
             kw_electric == Div(kw_mech, Mul(inp.motor_efficiency, inp.blower_efficiency))
         IN  Ok(Mul(kw_electric, inp.operating_hours))

\* Variant: the country's default factor wins over a supplied override.
grid_emissions_country_first(e_kwh, inp) ==
    LET ef == IF inp.grid_country \in DOMAIN DEFAULT_GRID_EF_KG_PER_KWH
              THEN DEFAULT_GRID_EF_KG_PER_KWH[inp.grid_country]
              ELSE inp.grid_ef_kgco2e_per_kwh
    IN  IF ef = None THEN Raise("Unknown grid_country. Provide grid_ef_kgco2e_per_kwh to override.")
        ELSE Ok(Mul(e_kwh, ef))

\* The grid branch: override, else country default.
grid_emissions(e_kwh, inp) ==
    LET ef == IF inp.grid_ef_kgco2e_per_kwh # None THEN inp.grid_ef_kgco2e_per_kwh
              ELSE IF inp.grid_country \in DOMAIN DEFAULT_GRID_EF_KG_PER_KWH
                   THEN DEFAULT_GRID_EF_KG_PER_KWH[inp.grid_country]
                   ELSE None
    IN  IF ef = None THEN Raise("Unknown grid_country. Provide grid_ef_kgco2e_per_kwh to override.")
        ELSE Ok(Mul(e_kwh, ef))

\* The fuel branch: kWh -> MJ -> liters -> kg CO2e.
fuel_emissions(e_kwh, inp, lhv) ==
    LET mj == Mul(e_kwh, MJ_PER_KWH)
        liters == IF IsPos(lhv) THEN Div(mj, lhv) ELSE Zero
    IN  IF inp.fuel_ef_kgco2e_per_liter # None
        THEN Ok(Mul(liters, inp.fuel_ef_kgco2e_per_liter))
        ELSE IF inp.energy_source \in DOMAIN DEFAULT_FUEL_EF_KG_PER_LITER
             THEN Ok(Mul(liters, DEFAULT_FUEL_EF_KG_PER_LITER[inp.energy_source]))
             ELSE RaiseExc("KeyError", inp.energy_source)

aeration_emissions_kgco2e(inp) ==
    LET e_kwh == aeration_energy_kwh(inp) IN
    IF ~e_kwh.ok THEN e_kwh
    ELSE IF inp.energy_source = "grid" THEN grid_emissions(e_kwh.val, inp)
    ELSE fuel_emissions(e_kwh.val, inp,
                        IF inp.energy_source = "diesel" THEN inp.diesel_lhv_mj_per_liter
                        ELSE inp.petrol_lhv_mj_per_liter)

(***************************************************************************)
(* Water_exchange_estimation.py                                            *)
(***************************************************************************)
\* math.pi, as the rational 22/7.
PI == <<22, 7>>
J_PER_KWH == Q(3600000)
S_PER_HOUR == Q(3600)
DIESEL_LHV_MJ_PER_LITER == Q(36)
PETROL_LHV_MJ_PER_LITER == <<171, 5>>

\* The dataclass with every field at its default; volume_m3 has none.
PumpingModelInputs(volume_m3) ==
    [volume_m3 |-> volume_m3,
     cycle_days |-> Q(90),
     method |-> "hydraulic",
     metered_kwh |-> None,
     specific_energy_kwh_per_m3 |-> None,
     pipe_diameter_m |-> <<3, 2>>,
     pipe_length_m |-> Q(100),
     static_head_m |-> Q(2),
     water_density_kg_m3 |-> Q(1025),
     friction_factor |-> <<1, 50>>,
     pump_efficiency |-> <<7, 10>>,
     gravity_m_s2 |-> <<981, 100>>,
     pumping_duration_hours |-> None,
     assumed_velocity_m_s |-> <<3, 2>>,
     energy_source |-> "grid",
     grid_country |-> "Mexico",
     grid_ef_kgco2e_per_kwh |-> None,
     fuel_ef_kgco2e_per_liter |-> None]

\* Lines 137-146: friction head, total dynamic head, hydraulic energy.
hydraulic_energy(inp, v_m_s) ==
    IF inp.gravity_m_s2 = Zero
    THEN RaiseExc("ZeroDivisionError", "float division by zero")
    ELSE LET hx_m == Mul(Mul(inp.friction_factor, Div(inp.pipe_length_m, inp.pipe_diameter_m)),
                         Div(Mul(v_m_s, v_m_s), Mul(Q(2), inp.gravity_m_s2)))
             tdh_m == Add(inp.static_head_m, hx_m)
             e_j == Div(Mul(Mul(Mul(inp.water_density_kg_m3, inp.gravity_m_s2), inp.volume_m3), tdh_m),
                        inp.pump_efficiency)
         IN  Ok(Div(e_j, J_PER_KWH))

\* Variant: the pump efficiency has no upper limit.
pumping_energy_kwh_efficiency_unbounded(inp) ==
    IF IsNeg(inp.volume_m3) THEN Raise("volume_m3 must be >= 0")
    ELSE IF inp.method = "metered_kwh" THEN
        IF inp.metered_kwh = None THEN Raise("method='metered_kwh' requires metered_kwh")
        ELSE IF IsNeg(inp.metered_kwh) THEN Raise("metered_kwh must be >= 0")
        ELSE Ok(inp.metered_kwh)
    ELSE IF inp.method = "specific_energy" THEN
        IF inp.specific_energy_kwh_per_m3 = None
        THEN Raise("method='specific_energy' requires specific_energy_kwh_per_m3")
        ELSE IF IsNeg(inp.specific_energy_kwh_per_m3)
        THEN Raise("specific_energy_kwh_per_m3 must be >= 0")
        ELSE Ok(Mul(inp.volume_m3, inp.specific_energy_kwh_per_m3))
    ELSE IF ~IsPos(inp.pipe_diameter_m) THEN Raise("pipe_diameter_m must be > 0")
    ELSE IF ~IsPos(inp.pump_efficiency)
    THEN Raise("pump_efficiency must be in (0, 1]")
    ELSE LET half == Div(inp.pipe_diameter_m, Q(2))
             area_m2 == Mul(PI, Mul(half, half))
         IN  IF inp.pumping_duration_hours # None THEN
                 IF ~IsPos(inp.pumping_duration_hours)
                 THEN Raise("pumping_duration_hours must be > 0")
                 ELSE LET t_s == Mul(inp.pumping_duration_hours, S_PER_HOUR)
                          q_m3_s == Div(inp.volume_m3, t_s)
                          v_m_s == IF IsPos(area_m2) THEN Div(q_m3_s, area_m2) ELSE Zero
                      IN  hydraulic_energy(inp, v_m_s)
             ELSE LET v_m_s == inp.assumed_velocity_m_s IN
                 IF ~IsPos(v_m_s) THEN Raise("assumed_velocity_m_s must be > 0")
                 ELSE IF ~IsPos(Mul(v_m_s, area_m2)) THEN Ok(Zero)
                 ELSE hydraulic_energy(inp, v_m_s)

\* Variant: the pipe diameter is validated before the method is looked at.
pumping_energy_kwh_diameter_first(inp) ==
    IF ~IsPos(inp.pipe_diameter_m) THEN Raise("pipe_diameter_m must be > 0")
    ELSE IF IsNeg(inp.volume_m3) THEN Raise("volume_m3 must be >= 0")
    ELSE IF inp.method = "metered_kwh" THEN
        IF inp.metered_kwh = None THEN Raise("method='metered_kwh' requires metered_kwh")
        ELSE IF IsNeg(inp.metered_kwh) THEN Raise("metered_kwh must be >= 0")
        ELSE Ok(inp.metered_kwh)
    ELSE IF inp.method = "specific_energy" THEN
        IF inp.specific_energy_kwh_per_m3 = None
        THEN Raise("method='specific_energy' requires specific_energy_kwh_per_m3")
        ELSE IF IsNeg(inp.specific_energy_kwh_per_m3)
        THEN Raise("specific_energy_kwh_per_m3 must be >= 0")
        ELSE Ok(Mul(inp.volume_m3, inp.specific_energy_kwh_per_m3))
    ELSE IF ~IsPos(inp.pipe_diameter_m) THEN Raise("pipe_diameter_m must be > 0")
    ELSE IF ~IsPos(inp.pump_efficiency) \/ Lt(One, inp.pump_efficiency)
    THEN Raise("pump_efficiency must be in (0, 1]")
    ELSE LET half == Div(inp.pipe_diameter_m, Q(2))
             area_m2 == Mul(PI, Mul(half, half))
         IN  IF inp.pumping_duration_hours # None THEN
                 IF ~IsPos(inp.pumping_duration_hours)
                 THEN Raise("pumping_duration_hours must be > 0")
                 ELSE LET t_s == Mul(inp.pumping_duration_hours, S_PER_HOUR)
                          q_m3_s == Div(inp.volume_m3, t_s)
                          v_m_s == IF IsPos(area_m2) THEN Div(q_m3_s, area_m2) ELSE Zero
                      IN  hydraulic_energy(inp, v_m_s)
             ELSE LET v_m_s == inp.assumed_velocity_m_s IN
                 IF ~IsPos(v_m_s) THEN Raise("assumed_velocity_m_s must be > 0")
                 ELSE IF ~IsPos(Mul(v_m_s, area_m2)) THEN Ok(Zero)
                 ELSE hydraulic_energy(inp, v_m_s)

pumping_energy_kwh(inp) ==
    IF IsNeg(inp.volume_m3) THEN Raise("volume_m3 must be >= 0")
    ELSE IF inp.method = "metered_kwh" THEN
        IF inp.metered_kwh = None THEN Raise("method='metered_kwh' requires metered_kwh")
        ELSE IF IsNeg(inp.metered_kwh) THEN Raise("metered_kwh must be >= 0")
        ELSE Ok(inp.metered_kwh)
    ELSE IF inp.method = "specific_energy" THEN
        IF inp.specific_energy_kwh_per_m3 = None
        THEN Raise("method='specific_energy' requires specific_energy_kwh_per_m3")
        ELSE IF IsNeg(inp.specific_energy_kwh_per_m3)
        THEN Raise("specific_energy_kwh_per_m3 must be >= 0")
        ELSE Ok(Mul(inp.volume_m3, inp.specific_energy_kwh_per_m3))
    ELSE IF ~IsPos(inp.pipe_diameter_m) THEN Raise("pipe_diameter_m must be > 0")
    ELSE IF ~IsPos(inp.pump_efficiency) \/ Lt(One, inp.pump_efficiency)
    THEN Raise("pump_efficiency must be in (0, 1]")
    ELSE LET half == Div(inp.pipe_diameter_m, Q(2))
             area_m2 == Mul(PI, Mul(half, half))
         IN  IF inp.pumping_duration_hours # None THEN
                 IF ~IsPos(inp.pumping_duration_hours)
                 THEN Raise("pumping_duration_hours must be > 0")
                 ELSE LET t_s == Mul(inp.pumping_duration_hours, S_PER_HOUR)
                          q_m3_s == Div(inp.volume_m3, t_s)
                          v_m_s == IF IsPos(area_m2) THEN Div(q_m3_s, area_m2) ELSE Zero
                      IN  hydraulic_energy(inp, v_m_s)
             ELSE LET v_m_s == inp.assumed_velocity_m_s IN
                 IF ~IsPos(v_m_s) THEN Raise("assumed_velocity_m_s must be > 0")
                 ELSE IF ~IsPos(Mul(v_m_s, area_m2)) THEN Ok(Zero)
                 ELSE hydraulic_energy(inp, v_m_s)

\* Lines 66-81: this module's own copies of the default factor tables.
PUMPING_DEFAULT_GRID_EF_KG_PER_KWH ==
    [c \in {"Mexico", "Vietnam", "Ecuador", "Brazil", "India", "Thailand"} |->
        CASE c = "Mexico" -> <<83, 200>>
          [] c = "Vietnam" -> <<21, 40>>
          [] c = "Ecuador" -> <<103, 500>>
          [] c = "Brazil" -> <<37, 500>>
          [] c = "India" -> <<309, 500>>
          [] c = "Thailand" -> <<401, 1000>>]

PUMPING_DEFAULT_FUEL_EF_KG_PER_LITER ==
    [f \in {"diesel", "petrol"} |->
        CASE f = "diesel" -> <<66, 25>>
          [] f = "petrol" -> <<231, 100>>]

\* Variant: the diesel heating value of the reference table, 35.8 MJ/L.
pumping_lhv_mj_per_liter_reference_table(energy_source) ==
    IF energy_source = "diesel" THEN <<179, 5>> ELSE PETROL_LHV_MJ_PER_LITER

\* Line 164: the heating values are fixed, diesel 36.0 and any other
\* source 34.2.
pumping_lhv_mj_per_liter(energy_source) ==
    IF energy_source = "diesel" THEN DIESEL_LHV_MJ_PER_LITER ELSE PETROL_LHV_MJ_PER_LITER

pumping_emissions_kgco2e(inp) ==
    LET e_kwh == pumping_energy_kwh(inp) IN
    IF ~e_kwh.ok THEN e_kwh
    ELSE IF inp.energy_source = "grid" THEN
        LET ef == IF inp.grid_ef_kgco2e_per_kwh # None THEN inp.grid_ef_kgco2e_per_kwh
                  ELSE IF inp.grid_country \in DOMAIN PUMPING_DEFAULT_GRID_EF_KG_PER_KWH
                       THEN PUMPING_DEFAULT_GRID_EF_KG_PER_KWH[inp.grid_country]
                       ELSE None
        IN  IF ef = None
            THEN Raise("Unknown grid_country. Provide grid_ef_kgco2e_per_kwh to override.")
            ELSE Ok(Mul(e_kwh.val, ef))
    ELSE
        LET mj == Mul(e_kwh.val, MJ_PER_KWH)
            lhv_mj_per_liter == pumping_lhv_mj_per_liter(inp.energy_source)
            liters == IF IsPos(lhv_mj_per_liter) THEN Div(mj, lhv_mj_per_liter) ELSE Zero
        IN  IF inp.fuel_ef_kgco2e_per_liter # None
            THEN Ok(Mul(liters, inp.fuel_ef_kgco2e_per_liter))
            ELSE IF inp.energy_source \in DOMAIN PUMPING_DEFAULT_FUEL_EF_KG_PER_LITER
                 THEN Ok(Mul(liters, PUMPING_DEFAULT_FUEL_EF_KG_PER_LITER[inp.energy_source]))
                 ELSE RaiseExc("KeyError", inp.energy_source)

(***************************************************************************)
(* otherghg.py                                                             *)
(***************************************************************************)
SystemTypes == {"extensive", "semi_intensive", "intensive"}

CH4_G_M2_DAY ==
    [t \in SystemTypes |->
        CASE t = "extensive" -> <<1, 100>>
          [] t = "semi_intensive" -> <<7, 200>>
          [] t = "intensive" -> <<9, 100>>]

N2O_G_M2_DAY ==
    [t \in SystemTypes |->
        CASE t = "extensive" -> <<3, 1000>>
          [] t = "semi_intensive" -> <<1, 100>>
          [] t = "intensive" -> <<13, 400>>]

GWP100_AR6 == [ch4 |-> Q(27), n2o |-> Q(273)]

\* Variant: the cycle length is used for a year too.
period_days_cycle_only(period, cycle_days) ==
    IF IsNeg(cycle_days) THEN Raise("cycle_days must be >= 0") ELSE Ok(cycle_days)

period_days(period, cycle_days) ==
    LET days == IF period = "year" THEN Q(365) ELSE cycle_days
    IN  IF IsNeg(days) THEN Raise("cycle_days must be >= 0") ELSE Ok(days)

tom_multiplier_saturating(om_mg_l, om_min, k, a) ==
    IF ~IsPos(k) THEN Raise("tom_k_mg_l must be > 0")
    ELSE LET x == RMax(Zero, Sub(om_mg_l, om_min))
         IN  Ok(Add(One, Mul(a, Div(x, Add(x, k)))))

TOMSummary(om_avg_mg_l, om_p90_mg_l) ==
    [om_avg_mg_l |-> om_avg_mg_l, om_p90_mg_l |-> om_p90_mg_l,
     coverage_pct |-> None, source |-> "satellite_calibrated",
     calibration_model_id |-> None, calibration_rmse_mg_l |-> None, notes |-> None]

\* The dataclass with every field at its default; pond_area_m2 has none.
PondGHGInputs(pond_area_m2) ==
    [pond_area_m2 |-> pond_area_m2,
     system_type |-> "semi_intensive",
     method_tier |-> "tier1_default",
     ch4_ef_g_m2_day |-> None,
     n2o_ef_g_m2_day |-> None,
     tom |-> NoneRec,
     tom_om_min_mg_l |-> Zero,
     tom_k_mg_l |-> Q(20),
     tom_a_ch4 |-> <<3, 2>>,
     tom_a_n2o |-> <<7, 10>>,
     tom_use_p90_for_ch4 |-> TRUE,
     measured_ch4_g_m2_day |-> None,
     measured_n2o_g_m2_day |-> None,
     gwp_version |-> "ar6"]

\* Variant: the factors finally chosen are not checked.
PondGHGResult_unchecked(inp, days, ch4_ef, n2o_ef, tom_used, note) ==
    IF FALSE THEN Raise("emission factors must be >= 0")
    ELSE LET gwp == GWP100_AR6
             ch4_kg == Div(Mul(Mul(ch4_ef, inp.pond_area_m2), days), Q(1000))
             n2o_kg == Div(Mul(Mul(n2o_ef, inp.pond_area_m2), days), Q(1000))
             ch4_kgco2e == Mul(ch4_kg, gwp.ch4)
             n2o_kgco2e == Mul(n2o_kg, gwp.n2o)
         IN  Ok([total_kgco2e |-> Add(ch4_kgco2e, n2o_kgco2e),
                 ch4_kg |-> ch4_kg, n2o_kg |-> n2o_kg,
                 ch4_kgco2e |-> ch4_kgco2e, n2o_kgco2e |-> n2o_kgco2e,
                 method_tier_used |-> inp.method_tier,
                 days_used |-> days,
                 efs_used_g_m2_day |-> [ch4 |-> ch4_ef, n2o |-> n2o_ef],
                 tom_used |-> tom_used,
                 gwps_used |-> gwp,
                 note |-> note])

\* Lines 160-185: the factor check, the masses and the result record.
PondGHGResult(inp, days, ch4_ef, n2o_ef, tom_used, note) ==
    IF IsNeg(ch4_ef) \/ IsNeg(n2o_ef) THEN Raise("emission factors must be >= 0")
    ELSE LET gwp == GWP100_AR6
             ch4_kg == Div(Mul(Mul(ch4_ef, inp.pond_area_m2), days), Q(1000))
             n2o_kg == Div(Mul(Mul(n2o_ef, inp.pond_area_m2), days), Q(1000))
             ch4_kgco2e == Mul(ch4_kg, gwp.ch4)
             n2o_kgco2e == Mul(n2o_kg, gwp.n2o)
         IN  Ok([total_kgco2e |-> Add(ch4_kgco2e, n2o_kgco2e),
                 ch4_kg |-> ch4_kg, n2o_kg |-> n2o_kg,
                 ch4_kgco2e |-> ch4_kgco2e, n2o_kgco2e |-> n2o_kgco2e,
                 method_tier_used |-> inp.method_tier,
                 days_used |-> days,
                 efs_used_g_m2_day |-> [ch4 |-> ch4_ef, n2o |-> n2o_ef],
                 tom_used |-> tom_used,
                 gwps_used |-> gwp,
                 note |-> note])

\* Variant: methane uses the high-percentile concentration whenever it is
\* supplied.
pond_ch4_n2o_mrv_p90_when_supplied(inp, period, cycle_days) ==
    IF IsNeg(inp.pond_area_m2) THEN Raise("pond_area_m2 must be >= 0")
    ELSE LET d == period_days(period, cycle_days) IN
    IF ~d.ok THEN d
    ELSE LET days == d.val
             tom_used == inp.tom
    IN
    IF inp.method_tier = "tier3_measured" THEN
        IF inp.measured_ch4_g_m2_day = None \/ inp.measured_n2o_g_m2_day = None
        THEN Raise("Tier 3 selected but measured CH4/N2O rates not provided.")
        ELSE PondGHGResult(inp, days, inp.measured_ch4_g_m2_day, inp.measured_n2o_g_m2_day,
                           tom_used, "Tier 3: measured flux rates.")
    ELSE IF (inp.ch4_ef_g_m2_day = None \/ inp.n2o_ef_g_m2_day = None)
            /\ inp.system_type \notin DOMAIN CH4_G_M2_DAY
    THEN RaiseExc("KeyError", inp.system_type)
    ELSE LET ch4_ef == IF inp.ch4_ef_g_m2_day # None THEN inp.ch4_ef_g_m2_day
                       ELSE CH4_G_M2_DAY[inp.system_type]
             n2o_ef == IF inp.n2o_ef_g_m2_day # None THEN inp.n2o_ef_g_m2_day
                       ELSE N2O_G_M2_DAY[inp.system_type]
    IN
    IF inp.method_tier = "tier2_tom_scaled" THEN
        IF inp.tom = NoneRec THEN Raise("Tier 2 selected but TOMSummary not provided.")
        ELSE LET om_for_ch4 == IF inp.tom.om_p90_mg_l # None
                               THEN inp.tom.om_p90_mg_l ELSE inp.tom.om_avg_mg_l
                 m_ch4 == tom_multiplier_saturating(om_for_ch4, inp.tom_om_min_mg_l,
                                                    inp.tom_k_mg_l, inp.tom_a_ch4)
                 m_n2o == tom_multiplier_saturating(inp.tom.om_avg_mg_l, inp.tom_om_min_mg_l,
                                                    inp.tom_k_mg_l, inp.tom_a_n2o)
             IN  IF ~m_ch4.ok THEN m_ch4
                 ELSE IF ~m_n2o.ok THEN m_n2o
                 ELSE PondGHGResult(inp, days, Mul(ch4_ef, m_ch4.val), Mul(n2o_ef, m_n2o.val),
                                    tom_used,
                                    "Tier 2: Annex EFs scaled by satellite-calibrated TOM (bounded saturating response).")
    ELSE PondGHGResult(inp, days, ch4_ef, n2o_ef, tom_used,
                       "Tier 1: Annex/system-type default EFs (or manual EF override).")

pond_ch4_n2o_mrv(inp, period, cycle_days) ==
    IF IsNeg(inp.pond_area_m2) THEN Raise("pond_area_m2 must be >= 0")
    ELSE LET d == period_days(period, cycle_days) IN
    IF ~d.ok THEN d
    ELSE LET days == d.val
             tom_used == inp.tom
    IN
    IF inp.method_tier = "tier3_measured" THEN
        IF inp.measured_ch4_g_m2_day = None \/ inp.measured_n2o_g_m2_day = None
        THEN Raise("Tier 3 selected but measured CH4/N2O rates not provided.")
        ELSE PondGHGResult(inp, days, inp.measured_ch4_g_m2_day, inp.measured_n2o_g_m2_day,
                           tom_used, "Tier 3: measured flux rates.")
    ELSE IF (inp.ch4_ef_g_m2_day = None \/ inp.n2o_ef_g_m2_day = None)
            /\ inp.system_type \notin DOMAIN CH4_G_M2_DAY
    THEN RaiseExc("KeyError", inp.system_type)
    ELSE LET ch4_ef == IF inp.ch4_ef_g_m2_day # None THEN inp.ch4_ef_g_m2_day
                       ELSE CH4_G_M2_DAY[inp.system_type]
             n2o_ef == IF inp.n2o_ef_g_m2_day # None THEN inp.n2o_ef_g_m2_day
                       ELSE N2O_G_M2_DAY[inp.system_type]
    IN
    IF inp.method_tier = "tier2_tom_scaled" THEN
        IF inp.tom = NoneRec THEN Raise("Tier 2 selected but TOMSummary not provided.")
        ELSE LET om_for_ch4 == IF inp.tom_use_p90_for_ch4 /\ inp.tom.om_p90_mg_l # None
                               THEN inp.tom.om_p90_mg_l ELSE inp.tom.om_avg_mg_l
                 m_ch4 == tom_multiplier_saturating(om_for_ch4, inp.tom_om_min_mg_l,
                                                    inp.tom_k_mg_l, inp.tom_a_ch4)
                 m_n2o == tom_multiplier_saturating(inp.tom.om_avg_mg_l, inp.tom_om_min_mg_l,
                                                    inp.tom_k_mg_l, inp.tom_a_n2o)
             IN  IF ~m_ch4.ok THEN m_ch4
                 ELSE IF ~m_n2o.ok THEN m_n2o
                 ELSE PondGHGResult(inp, days, Mul(ch4_ef, m_ch4.val), Mul(n2o_ef, m_n2o.val),
                                    tom_used,
                                    "Tier 2: Annex EFs scaled by satellite-calibrated TOM (bounded saturating response).")
    ELSE PondGHGResult(inp, days, ch4_ef, n2o_ef, tom_used,
                       "Tier 1: Annex/system-type default EFs (or manual EF override).")

(***************************************************************************)
(* estimator.py: the aggregator.                                           *)
(*                                                                         *)
(* A frame holds the position and the local variables of one call of       *)
(* estimate; each Step operator is one numbered block of the function.     *)
(***************************************************************************)
EmptyDict == [k \in {} |-> Zero]

Sources == {"pumping", "aeration", "feed", "seed", "luluc", "sequestration", "pond_ch4_n2o"}

InitFrame ==
    [pc |-> "start", frac_year |-> None, breakdown |-> EmptyDict,
     resolved_inputs |-> EmptyDict, result |-> NoneRec,
     exc |-> "", error |-> "", invoked |-> {}]

period_fraction_of_year(period, cycle_days) ==
    IF period = "year" THEN One ELSE Div(cycle_days, Q(365))

\* Variant: the failure is recorded but the partial figures are returned.
Propagate_partial(f, r) ==
    [f EXCEPT !.pc = "failed", !.exc = r.exc, !.error = r.err,
              !.result = [breakdown_kgco2e |-> f.breakdown, inputs |-> f.resolved_inputs]]

\* An exception leaves estimate: nothing is returned.
Propagate(f, r) == [f EXCEPT !.pc = "failed", !.exc = r.exc, !.error = r.err]

\* breakdown[key] = value; resolved_inputs[key] = audit
Store(f, key, value, audit, next) ==
    [f EXCEPT !.breakdown = (key :> value) @@ @,
              !.resolved_inputs = (key :> audit) @@ @,
              !.pc = next]

Call(f, calculator) == [f EXCEPT !.invoked = @ \cup {calculator}]

\* Variant: the harvested-mass check is left to the final division.
StartStep_unchecked(inp, f) ==
    [f EXCEPT !.frac_year = period_fraction_of_year(inp.period, inp.cycle_days),
              !.pc = "pumping"]

StartStep(inp, f) ==
    IF ~IsPos(inp.harvested_shrimp_kg)
    THEN Propagate(f, Raise("harvested_shrimp_kg must be > 0"))
    ELSE [f EXCEPT !.frac_year = period_fraction_of_year(inp.period, inp.cycle_days),
                   !.resolved_inputs = IF inp.mrv_metadata \notin {NoneRec, EmptyDict}
                                       THEN ("mrv_metadata" :> inp.mrv_metadata) @@ @
                                       ELSE @,
                   !.pc = "pumping"]

PumpingStep(inp, f) ==
    IF inp.pumping = NoneRec THEN [f EXCEPT !.pc = "aeration"]
    ELSE LET r == pumping_emissions_kgco2e(inp.pumping)
             g == Call(f, "pumping_emissions_kgco2e")
         IN  IF r.ok THEN Store(g, "pumping", r.val, inp.pumping, "aeration")
             ELSE Propagate(g, r)

AerationStep(inp, f) ==
    IF inp.aeration = NoneRec THEN [f EXCEPT !.pc = "feed"]
    ELSE LET r == aeration_emissions_kgco2e(inp.aeration)
             g == Call(f, "aeration_emissions_kgco2e")
         IN  IF r.ok THEN Store(g, "aeration", r.val, inp.aeration, "feed")
             ELSE Propagate(g, r)

\* Variant: a supplied total_feed_kg wins over the conversion ratio.
resolve_total_feed_kg_prefer_total(inp) ==
    IF inp.feed_input_mode = "fcr" /\ inp.total_feed_kg = None THEN
        IF inp.fcr = None THEN Raise("feed_input_mode is 'fcr' but fcr is None")
        ELSE IF IsNeg(inp.fcr) THEN Raise("fcr must be >= 0")
        ELSE Ok(Mul(inp.fcr, inp.harvested_shrimp_kg))
    ELSE Ok(inp.total_feed_kg)

\* Lines 100-106: the feed mass, direct or from the feed conversion ratio.
resolve_total_feed_kg(inp) ==
    IF inp.feed_input_mode = "fcr" THEN
        IF inp.fcr = None THEN Raise("feed_input_mode is 'fcr' but fcr is None")
        ELSE IF IsNeg(inp.fcr) THEN Raise("fcr must be >= 0")
        ELSE Ok(Mul(inp.fcr, inp.harvested_shrimp_kg))
    ELSE Ok(inp.total_feed_kg)

FeedStep(inp, f) ==
    LET t == resolve_total_feed_kg(inp) IN
    IF ~t.ok THEN Propagate(f, t)
    ELSE IF t.val = None THEN [f EXCEPT !.pc = "seed"]
    ELSE LET r == feed_emissions_kgco2e(t.val, inp.boundary,
                                        inp.feed_emission_intensity_kgco2e_per_kg)
             g == Call(f, "feed_emissions_kgco2e")
         IN  IF r.ok
             THEN Store(g, "feed", r.val,
                        [feed_input_mode |-> inp.feed_input_mode,
                         total_feed_kg |-> t.val,
                         fcr |-> inp.fcr,
                         boundary |-> inp.boundary,
                         emission_intensity_kgco2e_per_kg |->
                             inp.feed_emission_intensity_kgco2e_per_kg],
                        "seed")
             ELSE Propagate(g, r)

\* Variant: an absent seed source is recorded as zero.
SeedStep_zero_when_absent(inp, f) ==
    IF inp.seed_thousand_pl = None
    THEN Store(f, "seed", Zero, [thousand_pl |-> None], "luluc")
    ELSE LET r == seed_emissions_kgco2e(inp.seed_thousand_pl, inp.boundary,
                                        inp.seed_emission_intensity_kgco2e_per_thousand_pl)
             g == Call(f, "seed_emissions_kgco2e")
         IN  IF r.ok
             THEN Store(g, "seed", r.val, [thousand_pl |-> inp.seed_thousand_pl], "luluc")
             ELSE Propagate(g, r)

SeedStep(inp, f) ==
    IF inp.seed_thousand_pl = None THEN [f EXCEPT !.pc = "luluc"]
    ELSE LET r == seed_emissions_kgco2e(inp.seed_thousand_pl, inp.boundary,
                                        inp.seed_emission_intensity_kgco2e_per_thousand_pl)
             g == Call(f, "seed_emissions_kgco2e")
         IN  IF r.ok
             THEN Store(g, "seed", r.val,
                        [thousand_pl |-> inp.seed_thousand_pl,
                         boundary |-> inp.boundary,
                         emission_intensity_kgco2e_per_thousand_pl |->
                             inp.seed_emission_intensity_kgco2e_per_thousand_pl],
                        "luluc")
             ELSE Propagate(g, r)

LulucStep(inp, f) ==
    IF inp.luluc = NoneRec THEN [f EXCEPT !.pc = "sequestration"]
    ELSE LET r == luluc_emissions_kgco2e(inp.luluc)
             g == Call(f, "luluc_emissions_kgco2e")
         IN  IF r.ok
             THEN Store(g, "luluc", Mul(r.val, f.frac_year), inp.luluc, "sequestration")
             ELSE Propagate(g, r)

SequestrationStep(inp, f) ==
    IF inp.sequestration = NoneRec THEN [f EXCEPT !.pc = "pond_ch4_n2o"]
    ELSE LET r == sequestration_kgco2e(inp.sequestration)
             g == Call(f, "sequestration_kgco2e")
         IN  IF r.ok
             THEN Store(g, "sequestration", Mul(Neg(r.val), f.frac_year),
                        inp.sequestration, "pond_ch4_n2o")
             ELSE Propagate(g, r)

PondStep(inp, f) ==
    IF inp.pond_ghg = NoneRec THEN [f EXCEPT !.pc = "sum"]
    ELSE LET r == pond_ch4_n2o_mrv(inp.pond_ghg, inp.period, inp.cycle_days)
             g == Call(f, "pond_ch4_n2o_mrv")
         IN  IF r.ok
             THEN Store(g, "pond_ch4_n2o", r.val.total_kgco2e,
                        [inputs |-> inp.pond_ghg,
                         method_tier_used |-> r.val.method_tier_used,
                         efs_used_g_m2_day |-> r.val.efs_used_g_m2_day,
                         gwps_used |-> r.val.gwps_used,
                         tom_used |-> r.val.tom_used,
                         note |-> r.val.note],
                        "sum")
             ELSE Propagate(g, r)

\* sum(breakdown.values())
RECURSIVE SumValues(_, _)
SumValues(d, keys) ==
    IF keys = {} THEN Zero
    ELSE LET k == CHOOSE x \in keys : TRUE
         IN  Add(d[k], SumValues(d, keys \ {k}))

\* Variant: removals are left out of the total.
SumStep_without_removals(inp, f) ==
    LET total_kgco2e == SumValues(f.breakdown, DOMAIN f.breakdown \ {"sequestration"})
    IN  [f EXCEPT !.pc = "done",
                  !.result =
                      [period |-> inp.period,
                       cycle_days |-> IF inp.period = "cycle" THEN inp.cycle_days ELSE None,
                       boundary |-> inp.boundary,
                       total_kgco2e |-> total_kgco2e,
                       intensity_kgco2e_per_kg_shrimp |-> Div(total_kgco2e, inp.harvested_shrimp_kg),
                       breakdown_kgco2e |-> f.breakdown,
                       inputs |-> f.resolved_inputs]]

SumStep(inp, f) ==
    IF inp.harvested_shrimp_kg = Zero
    THEN Propagate(f, RaiseExc("ZeroDivisionError", "float division by zero"))
    ELSE LET total_kgco2e == SumValues(f.breakdown, DOMAIN f.breakdown)
             intensity == Div(total_kgco2e, inp.harvested_shrimp_kg)
         IN  [f EXCEPT !.pc = "done",
                       !.result =
                           [period |-> inp.period,
                            cycle_days |-> IF inp.period = "cycle" THEN inp.cycle_days ELSE None,
                            boundary |-> inp.boundary,
                            total_kgco2e |-> total_kgco2e,
                            intensity_kgco2e_per_kg_shrimp |-> intensity,
                            breakdown_kgco2e |-> f.breakdown,
                            inputs |-> f.resolved_inputs]]

Step(inp, f) ==
    CASE f.pc = "start" -> StartStep(inp, f)
      [] f.pc = "pumping" -> PumpingStep(inp, f)
      [] f.pc = "aeration" -> AerationStep(inp, f)
      [] f.pc = "feed" -> FeedStep(inp, f)
      [] f.pc = "seed" -> SeedStep(inp, f)
      [] f.pc = "luluc" -> LulucStep(inp, f)
      [] f.pc = "sequestration" -> SequestrationStep(inp, f)
      [] f.pc = "pond_ch4_n2o" -> PondStep(inp, f)
      [] f.pc = "sum" -> SumStep(inp, f)

\* One whole call of estimate, from entry to return or raise.
RECURSIVE Run(_, _)
Run(inp, f) == IF f.pc \in {"done", "failed"} THEN f ELSE Run(inp, Step(inp, f))

estimate(inp) == Run(inp, InitFrame)

(***************************************************************************)
(* The requests considered.  A request has nine dimensions: the seven      *)
(* sources, the time basis and the MRV metadata.  Each dimension has plain *)
(* values (a source absent or nominal) and deviating ones (invalid         *)
(* parameters, overrides, other modes); a request deviates in at most      *)
(* MaxDeviations dimensions.                                               *)
(***************************************************************************)
Metered(kwh) ==
    [PumpingModelInputs(Q(100)) EXCEPT !.method = "metered_kwh", !.metered_kwh = kwh]

PumpingNominal == PumpingModelInputs(Q(7000))
PumpingDeviating ==
    {Metered(Q(100)),
     [Metered(Q(100)) EXCEPT !.grid_ef_kgco2e_per_kwh = <<-1, 2>>],
     [PumpingNominal EXCEPT !.method = "specific_energy",
                            !.specific_energy_kwh_per_m3 = <<1, 100>>],
     Metered(None)}

AerationNominal == AerationInputs(Q(8), Q(100))
AerationDeviating ==
    {[AerationNominal EXCEPT !.grid_ef_kgco2e_per_kwh = <<-1, 2>>],
     [AerationNominal EXCEPT !.energy_source = "diesel",
                             !.fuel_ef_kgco2e_per_liter = Q(-1)],
     [AerationNominal EXCEPT !.motor_efficiency = Zero]}

\* <<feed_input_mode, total_feed_kg, fcr, feed_emission_intensity_kgco2e_per_kg>>
FeedAbsent == <<"total", None, None, None>>
FeedNominal == <<"total", Q(2), None, None>>
FeedDeviating ==
    {<<"total", Q(-1), None, None>>, <<"total", Zero, None, None>>,
     <<"total", Q(2), None, Q(5)>>, <<"total", Q(2), None, Q(-1)>>,
     <<"total", Zero, None, Q(5)>>, <<"total", Q(-1), None, Q(5)>>,
     <<"total", None, <<3, 2>>, Q(5)>>, <<"total", Q(2), <<3, 2>>, None>>,
     <<"fcr", None, <<3, 2>>, None>>, <<"fcr", Q(2), <<3, 2>>, Q(5)>>,
     <<"fcr", Q(2), <<3, 2>>, None>>, <<"fcr", None, <<3, 2>>, Q(5)>>,
     <<"fcr", Q(2), None, None>>, <<"fcr", None, Q(-1), None>>,
     <<"fcr", None, Zero, None>>}

\* <<seed_thousand_pl, seed_emission_intensity_kgco2e_per_thousand_pl>>
SeedAbsent == <<None, None>>
SeedNominal == <<Q(2), None>>
SeedDeviating ==
    {<<Q(2), <<1, 2>>>>, <<Q(2), Q(-1)>>, <<Q(-1), None>>, <<None, <<1, 2>>>>, <<Zero, None>>}

Conversions(years, cycle_days) ==
    [LulucInputs("desert", One) EXCEPT !.farm_age_years = years, !.cycle_days = cycle_days]

LulucNominal == Conversions(Q(2), Q(73))
LulucDeviating ==
    {Conversions(Q(2), Q(365)),
     Conversions(Q(2), Q(146)),
     Conversions(None, Q(73)),
     Conversions(Q(2), Zero)}

SequestrationNominal == SequestrationInputs("Mangroves", One)
SequestrationDeviating ==
    {SequestrationInputs("Grasslands", Q(2)),
     SequestrationInputs("Mangroves", Zero),
     SequestrationInputs("Mangroves", Q(-1))}

PondNominal == PondGHGInputs(Q(1000))
PondDeviating ==
    {[PondNominal EXCEPT !.method_tier = "tier3_measured"],
     [PondNominal EXCEPT !.ch4_ef_g_m2_day = Q(-1)]}

\* <<period, cycle_days>>
TimeNominal == {<<"year", Q(90)>>, <<"cycle", Q(73)>>}
TimeDeviating == {<<"cycle", Zero>>, <<"cycle", Q(-73)>>}

MetadataDeviating == {[operator |-> "farm-1"]}

Dimensions ==
    {"pumping", "aeration", "feed", "seed", "luluc", "sequestration", "pond_ghg",
     "time", "mrv_metadata"}

Plain ==
    [pumping |-> {NoneRec, PumpingNominal}, aeration |-> {NoneRec, AerationNominal},
     feed |-> {FeedAbsent, FeedNominal}, seed |-> {SeedAbsent, SeedNominal},
     luluc |-> {NoneRec, LulucNominal},
     sequestration |-> {NoneRec, SequestrationNominal},
     pond_ghg |-> {NoneRec, PondNominal},
     time |-> TimeNominal, mrv_metadata |-> {NoneRec}]

Deviating ==
    [pumping |-> PumpingDeviating, aeration |-> AerationDeviating, feed |-> FeedDeviating,
     seed |-> SeedDeviating, luluc |-> LulucDeviating,
     sequestration |-> SequestrationDeviating, pond_ghg |-> PondDeviating,
     time |-> TimeDeviating, mrv_metadata |-> MetadataDeviating]

\* The values of dimension k when the dimensions in D deviate.
Pick(D, k) == IF k \in D THEN Deviating[k] ELSE Plain[k]

Combos ==
    UNION {[pumping : Pick(D, "pumping"), aeration : Pick(D, "aeration"),
            feed : Pick(D, "feed"), seed : Pick(D, "seed"), luluc : Pick(D, "luluc"),
            sequestration : Pick(D, "sequestration"), pond_ghg : Pick(D, "pond_ghg"),
            time : Pick(D, "time"), mrv_metadata : Pick(D, "mrv_metadata")] :
           D \in {X \in SUBSET Dimensions : Cardinality(X) <= MaxDeviations}}

EstimatorInputs(harvested_shrimp_kg, boundary, c) ==
    [harvested_shrimp_kg |-> harvested_shrimp_kg,
     period |-> c.time[1],
     cycle_days |-> c.time[2],
     boundary |-> boundary,
     pumping |-> c.pumping,
     aeration |-> c.aeration,
     feed_input_mode |-> c.feed[1],
     total_feed_kg |-> c.feed[2],
     fcr |-> c.feed[3],
     feed_emission_intensity_kgco2e_per_kg |-> c.feed[4],
     seed_thousand_pl |-> c.seed[1],
     seed_emission_intensity_kgco2e_per_thousand_pl |-> c.seed[2],
     luluc |-> c.luluc,
     sequestration |-> c.sequestration,
     pond_ghg |-> c.pond_ghg,
     mrv_metadata |-> c.mrv_metadata]

Requests ==
    {EstimatorInputs(Q(h), b, c) : h \in (-1)..MaxHarvest, b \in {"A", "B"}, c \in Combos}

(***************************************************************************)
(* The state machine: one call of estimate on one request.  history holds  *)
(* the results the caller was handed by its earlier calls, and peer is a  *)
(* second caller's call in progress (none unless there are two callers).   *)
(***************************************************************************)
VARIABLES inputs, pc, frac_year, breakdown, resolved_inputs, result, exc, error, invoked, history, peer

vars == <<inputs, pc, frac_year, breakdown, resolved_inputs, result, exc, error, invoked, history, peer>>

Frame ==
    [pc |-> pc, frac_year |-> frac_year, breakdown |-> breakdown,
     resolved_inputs |-> resolved_inputs, result |-> result,
     exc |-> exc, error |-> error, invoked |-> invoked]

Becomes(f) ==
    /\ pc' = f.pc
    /\ frac_year' = f.frac_year
    /\ breakdown' = f.breakdown
    /\ resolved_inputs' = f.resolved_inputs
    /\ result' = f.result
    /\ exc' = f.exc
    /\ error' = f.error
    /\ invoked' = f.invoked
    /\ UNCHANGED <<inputs, history, peer>>

Init ==
    /\ inputs \in Requests
    /\ pc = InitFrame.pc
    /\ frac_year = InitFrame.frac_year
    /\ breakdown = InitFrame.breakdown
    /\ resolved_inputs = InitFrame.resolved_inputs
    /\ result = InitFrame.result
    /\ exc = InitFrame.exc
    /\ error = InitFrame.error
    /\ invoked = InitFrame.invoked
    /\ history = << >>
    /\ peer = NoneRec

Start == pc = "start" /\ Becomes(StartStep(inputs, Frame))
Pumping == pc = "pumping" /\ Becomes(PumpingStep(inputs, Frame))
Aeration == pc = "aeration" /\ Becomes(AerationStep(inputs, Frame))
Feed == pc = "feed" /\ Becomes(FeedStep(inputs, Frame))
Seed == pc = "seed" /\ Becomes(SeedStep(inputs, Frame))
Luluc == pc = "luluc" /\ Becomes(LulucStep(inputs, Frame))
Sequestration == pc = "sequestration" /\ Becomes(SequestrationStep(inputs, Frame))
Pond == pc = "pond_ch4_n2o" /\ Becomes(PondStep(inputs, Frame))
Sum == pc = "sum" /\ Becomes(SumStep(inputs, Frame))

Next ==
    \/ Start
    \/ Pumping
    \/ Aeration
    \/ Feed
    \/ Seed
    \/ Luluc
    \/ Sequestration
    \/ Pond
    \/ Sum

Spec == Init /\ [][Next]_vars

\* The requests whose period is a year or a cycle of positive length.
InitPositiveCycle == Init /\ (inputs.period = "year" \/ IsPos(inputs.cycle_days))

SpecPositiveCycle == InitPositiveCycle /\ [][Next]_vars

(***************************************************************************)
(* Requests that carry one source only, over a wider range of that         *)
(* source's parameters: the per-source calculators as estimate calls them. *)
(* The two energy models also appear together, drawing equal energy.       *)
(***************************************************************************)
Times == TimeNominal \cup TimeDeviating

NoSources ==
    [pumping |-> NoneRec, aeration |-> NoneRec, feed |-> FeedAbsent, seed |-> SeedAbsent,
     luluc |-> NoneRec, sequestration |-> NoneRec, pond_ghg |-> NoneRec,
     time |-> <<"year", Q(90)>>, mrv_metadata |-> NoneRec]

Single(k, v, t) == EstimatorInputs(One, "A", [NoSources EXCEPT ![k] = v, !.time = t])

\* energy_source, grid_country and the grid factor override of an energy model.
EnergySources == {"grid", "diesel", "petrol", "solar"}
Countries == {"Mexico", "Vietnam", "Atlantis"}
GridOverrides == {None, Zero, <<1, 2>>}

Powered(inp) ==
    {[inp EXCEPT !.energy_source = s, !.grid_country = c, !.grid_ef_kgco2e_per_kwh = o] :
        s \in EnergySources, c \in Countries, o \in GridOverrides}

\* A hydraulic request in round numbers: with the duration given the
\* velocity it implies is 1 m/s, the assumed velocity.
RoundPump(static_head_m, pipe_length_m, friction_factor, water_density_kg_m3, timed) ==
    [PumpingModelInputs(<<792, 7>>) EXCEPT
        !.pipe_diameter_m = Q(2), !.gravity_m_s2 = Q(10), !.pump_efficiency = One,
        !.assumed_velocity_m_s = One,
        !.pumping_duration_hours = IF timed THEN <<1, 100>> ELSE None,
        !.static_head_m = static_head_m, !.pipe_length_m = pipe_length_m,
        !.friction_factor = friction_factor,
        !.water_density_kg_m3 = water_density_kg_m3]

Heads == {Zero, Q(2), Q(3)}
Lengths == {Zero, Q(100), Q(200)}

RoundPumps ==
    {RoundPump(h, l, f, r, t) :
        h \in Heads, l \in Lengths, f \in {<<-1, 50>>, <<1, 50>>},
        r \in {Q(-1000), Q(1000)}, t \in BOOLEAN}
    \cup {[RoundPump(h, l, <<1, 50>>, Q(1000), t) EXCEPT !.gravity_m_s2 = Q(-10)] :
             h \in Heads, l \in Lengths, t \in BOOLEAN}

\* The hydraulic method over its validated parameters and gravity.
Hydraulic ==
    {[PumpingNominal EXCEPT !.gravity_m_s2 = g, !.pipe_diameter_m = d, !.pump_efficiency = e] :
        g \in {Zero, <<981, 100>>}, d \in {Zero, <<3, 2>>}, e \in {Zero, <<7, 10>>, Q(2)}}
    \cup {[PumpingNominal EXCEPT !.pumping_duration_hours = h] : h \in {Q(-1), Zero}}
    \cup {[PumpingNominal EXCEPT !.assumed_velocity_m_s = v] : v \in {Q(-1), Zero}}
    \cup {[PumpingNominal EXCEPT !.volume_m3 = v] : v \in {Q(-1), Zero}}
    \cup {[RoundPump(Q(2), Q(100), <<1, 50>>, Q(1000), TRUE) EXCEPT
              !.assumed_velocity_m_s = v] : v \in {Zero, <<3, 2>>}}
    \cup RoundPumps

\* The other two methods with a duration and a velocity the hydraulic
\* method refuses.
Unchecked ==
    {[PumpingModelInputs(Q(100)) EXCEPT
         !.method = m, !.metered_kwh = Q(100), !.specific_energy_kwh_per_m3 = <<1, 100>>,
         !.pumping_duration_hours = h, !.assumed_velocity_m_s = v, !.pump_efficiency = e] :
        m \in {"metered_kwh", "specific_energy"}, h \in {None, Q(-1), Zero},
        v \in {Zero, <<3, 2>>}, e \in {<<7, 10>>, Q(2)}}

\* The metered method over the meter reading, the volume and the
\* parameters of the hydraulic method.
Metering ==
    {[PumpingModelInputs(v) EXCEPT
         !.method = "metered_kwh", !.metered_kwh = m,
         !.pipe_diameter_m = d, !.gravity_m_s2 = g, !.pump_efficiency = e] :
        v \in {Q(-1), Zero, Q(100)}, m \in {None, Q(-1), Zero, Q(100)},
        d \in {Zero, <<3, 2>>}, g \in {Zero, <<981, 100>>}, e \in {Zero, <<7, 10>>}}

\* The specific-energy method over the factor and the volume.
SpecificEnergy ==
    {[PumpingModelInputs(v) EXCEPT
         !.method = "specific_energy", !.specific_energy_kwh_per_m3 = f,
         !.pipe_diameter_m = d] :
        v \in {Q(-1), Zero, Q(100), Q(7000)}, f \in {None, <<-1, 100>>, Zero, <<1, 100>>},
        d \in {Zero, <<3, 2>>}}

PumpingCases ==
    Powered(Metered(Q(100))) \cup Powered(PumpingNominal) \cup Hydraulic
    \cup Metering \cup SpecificEnergy \cup Unchecked

\* Aerators on fuel, over the lower heating values of the two fuels.
Fuelled ==
    {[AerationNominal EXCEPT !.energy_source = s,
                             !.diesel_lhv_mj_per_liter = d,
                             !.petrol_lhv_mj_per_liter = p] :
        s \in {"diesel", "petrol"}, d \in {Q(-1), Zero, Q(36)}, p \in {Zero, <<171, 5>>}}

\* Aerators over the power, the hours and the two efficiencies.
Aerators ==
    {[AerationInputs(hp, h) EXCEPT !.motor_efficiency = m, !.blower_efficiency = b] :
        hp \in {Q(-1), Zero, Q(8)}, h \in {Q(-1), Zero, Q(100)},
        m \in {Zero, <<4, 5>>, One, <<3, 2>>}, b \in {<<-1, 2>>, <<1, 2>>, One, Q(2)}}

AerationCases == Powered(AerationNominal) \cup Fuelled \cup Aerators

\* A conversion of one hectare of desert soil reported over a whole year.
Allocation(y, amortization_years, immediate_window_years, immediate_release_fraction) ==
    [LulucInputs("desert", One) EXCEPT
        !.years_since_conversion = y,
        !.cycle_days = Q(365),
        !.amortization_years = amortization_years,
        !.immediate_window_years = immediate_window_years,
        !.immediate_release_fraction = immediate_release_fraction]

Fractions == {<<-1, 2>>, Zero, <<7, 10>>, One, <<3, 2>>}

Allocations ==
    {Allocation(Q(y), Q(n), Q(w), f) :
        y \in 0..MaxYears, n \in {-1, 0, 2, 20}, w \in {-1, 0, 2, 5}, f \in Fractions}

OtherLand ==
    {[Allocation(Q(y), Q(2), Q(2), <<7, 10>>) EXCEPT !.soil_type = s, !.area_ha = a] :
        y \in 0..MaxYears, s \in {"desert", "mangrove"}, a \in {Zero, <<1, 2>>, Q(3)}}

Resolutions ==
    {[Allocation(Zero, Q(2), Q(2), <<7, 10>>) EXCEPT
         !.years_since_conversion = a, !.farm_age_years = b] :
        a \in {None, Q(-1), Zero, Q(MaxYears)}, b \in {None, Q(-1), Zero, Q(MaxYears)}}

InvalidLand ==
    {[Allocation(Zero, Q(2), Q(2), <<7, 10>>) EXCEPT !.area_ha = a, !.cycle_days = c] :
        a \in {Q(-1), One}, c \in {Q(-73), Zero, Q(73)}}

UnknownSoil == {[Allocation(Zero, Q(2), Q(2), <<7, 10>>) EXCEPT !.soil_type = "chalk"]}

LulucCases == Allocations \cup OtherLand \cup Resolutions \cup InvalidLand \cup UnknownSoil

SequestrationCases ==
    {SequestrationInputs(v, a) : v \in {"Mangroves", "Peatlands", "Kelp"},
                                 a \in {Q(-1), Zero, One}}

\* The three tiers over what each one needs.
Tiers ==
    {[PondGHGInputs(a) EXCEPT !.method_tier = m, !.system_type = s,
                              !.measured_ch4_g_m2_day = c, !.measured_n2o_g_m2_day = n,
                              !.tom = t, !.ch4_ef_g_m2_day = o] :
        a \in {Q(-1), Q(1000)},
        m \in {"tier1_default", "tier2_tom_scaled", "tier3_measured"},
        s \in {"semi_intensive", "super"},
        c \in {None, <<-1, 10>>, <<1, 10>>},
        n \in {None, <<1, 100>>},
        t \in {NoneRec, TOMSummary(Q(20), None)},
        o \in {None, Q(-1)}}

\* Organic-matter concentrations, in steps of OMStep mg/L.
OMStep == 10
Concentrations == {Q(OMStep * i) : i \in 0..MaxOM}

\* Tier organic-matter-scaled over the summary and the scaling parameters.
TomScaled ==
    {[PondGHGInputs(Q(1000)) EXCEPT
         !.method_tier = "tier2_tom_scaled",
         !.tom = TOMSummary(avg, p90),
         !.tom_use_p90_for_ch4 = u,
         !.tom_om_min_mg_l = floor,
         !.tom_k_mg_l = k,
         !.tom_a_ch4 = a,
         !.tom_a_n2o = a] :
        avg \in Concentrations, p90 \in {None, Q(OMStep * MaxOM)}, u \in BOOLEAN,
        floor \in {Q(-10), Zero, Q(10)}, k \in {Q(-1), Q(5), Q(20)},
        a \in {Q(-1), Zero, <<7, 10>>, <<3, 2>>}}

\* The three tiers over the override of each gas, the measured rates, the
\* summary and the use of its high percentile.
Selections ==
    {[PondGHGInputs(Q(1000)) EXCEPT
         !.method_tier = m, !.ch4_ef_g_m2_day = c, !.n2o_ef_g_m2_day = n,
         !.measured_ch4_g_m2_day = r[1], !.measured_n2o_g_m2_day = r[2],
         !.tom = t, !.tom_use_p90_for_ch4 = u] :
        m \in {"tier1_default", "tier2_tom_scaled", "tier3_measured"},
        c \in {None, <<1, 20>>}, n \in {None, <<1, 50>>},
        r \in {<<None, None>>, <<<<1, 10>>, <<1, 100>>>>},
        t \in {NoneRec, TOMSummary(Q(20), None), TOMSummary(Q(20), Q(60))},
        u \in BOOLEAN}

PondCases == Tiers \cup TomScaled \cup Selections

\* Pumps and aerators that draw the same energy, 745.7 kWh, from the same
\* source with the same overrides.
EnergyPairs ==
    {[pumping |-> [Metered(<<7457, 10>>) EXCEPT
                      !.energy_source = s, !.grid_country = c,
                      !.grid_ef_kgco2e_per_kwh = o, !.fuel_ef_kgco2e_per_liter = l],
      aeration |-> [AerationNominal EXCEPT
                       !.energy_source = s, !.grid_country = c,
                       !.grid_ef_kgco2e_per_kwh = o, !.fuel_ef_kgco2e_per_liter = l]] :
        s \in {"grid", "diesel", "petrol"}, c \in Countries, o \in GridOverrides,
        l \in {None, Q(3)}}

PairedRequests ==
    {EstimatorInputs(One, "A", [NoSources EXCEPT !.pumping = e.pumping,
                                                !.aeration = e.aeration, !.time = t]) :
        e \in EnergyPairs, t \in Times}

SourceRequests ==
    {Single("pumping", v, t) : v \in PumpingCases, t \in Times}
    \cup {Single("aeration", v, t) : v \in AerationCases, t \in Times}
    \cup {Single("luluc", v, t) : v \in LulucCases, t \in Times}
    \cup {Single("sequestration", v, t) : v \in SequestrationCases, t \in Times}
    \cup {Single("pond_ghg", v, t) : v \in PondCases, t \in Times}
    \cup PairedRequests

InitSingleSource ==
    /\ inputs \in SourceRequests
    /\ pc = InitFrame.pc
    /\ frac_year = InitFrame.frac_year
    /\ breakdown = InitFrame.breakdown
    /\ resolved_inputs = InitFrame.resolved_inputs
    /\ result = InitFrame.result
    /\ exc = InitFrame.exc
    /\ error = InitFrame.error
    /\ invoked = InitFrame.invoked
    /\ history = << >>
    /\ peer = NoneRec

SpecSingleSource == InitSingleSource /\ [][Next]_vars

\* The single-source requests whose period is a year or a cycle of positive length.
InitSingleSourcePositiveCycle ==
    InitSingleSource /\ (inputs.period = "year" \/ IsPos(inputs.cycle_days))

SpecSingleSourcePositiveCycle == InitSingleSourcePositiveCycle /\ [][Next]_vars

(***************************************************************************)
(* Callers.  A caller may write to the audit record it was handed and call *)
(* again with the same request object, may evaluate one conversion year    *)
(* after year, and a second caller may run its own call at the same time.  *)
(***************************************************************************)
\* A request with every source, the pumping energy metered.
Everything ==
    [pumping |-> Metered(Q(100)), aeration |-> AerationNominal, feed |-> FeedNominal,
     seed |-> SeedNominal, luluc |-> LulucNominal, sequestration |-> SequestrationNominal,
     pond_ghg |-> [PondNominal EXCEPT !.tom = TOMSummary(Q(20), None)],
     time |-> <<"cycle", Q(73)>>, mrv_metadata |-> [operator |-> "farm-1"]]

\* The call starts over: a new frame for the request as it now is.
Enter ==
    /\ pc' = InitFrame.pc
    /\ frac_year' = InitFrame.frac_year
    /\ breakdown' = InitFrame.breakdown
    /\ resolved_inputs' = InitFrame.resolved_inputs
    /\ result' = InitFrame.result
    /\ exc' = InitFrame.exc
    /\ error' = InitFrame.error
    /\ invoked' = InitFrame.invoked

\* The audit entries that are objects of the request itself: estimate
\* stores inputs.<source>.__dict__, the attribute dictionary of the
\* dataclass instance, and inputs.mrv_metadata, the request's dictionary;
\* the pond entry holds inputs.pond_ghg.__dict__ under "inputs".  The feed
\* and seed entries and the other pond fields are new dictionaries.
Shared(key, sub) ==
    \/ sub = "" /\ key \in {"pumping", "aeration", "luluc", "sequestration", "mrv_metadata"}
    \/ sub = "inputs" /\ key = "pond_ch4_n2o"

\* The request field behind an audit key.
RequestField(key) == IF key = "pond_ch4_n2o" THEN "pond_ghg" ELSE key

\* audit[key][field] = value, or audit[key][sub][field] = value
WriteAudit(audit, w) ==
    IF w.sub = "" THEN [audit EXCEPT ![w.key][w.field] = w.value]
    ELSE [audit EXCEPT ![w.key][w.sub][w.field] = w.value]

\* What the same assignment does to the request.
WriteRequest(inp, w) ==
    IF Shared(w.key, w.sub) THEN [inp EXCEPT ![RequestField(w.key)][w.field] = w.value]
    ELSE inp

\* The assignments a caller makes to the audit record of a result.
Writes ==
    {[key |-> "pumping", sub |-> "", field |-> "metered_kwh", value |-> Q(200)],
     [key |-> "aeration", sub |-> "", field |-> "operating_hours", value |-> Zero],
     [key |-> "feed", sub |-> "", field |-> "total_feed_kg", value |-> Q(5)],
     [key |-> "seed", sub |-> "", field |-> "thousand_pl", value |-> Q(5)],
     [key |-> "luluc", sub |-> "", field |-> "area_ha", value |-> Q(2)],
     [key |-> "sequestration", sub |-> "", field |-> "area_ha", value |-> Q(-1)],
     [key |-> "pond_ch4_n2o", sub |-> "inputs", field |-> "pond_area_m2", value |-> Q(2000)],
     [key |-> "pond_ch4_n2o", sub |-> "tom_used", field |-> "om_avg_mg_l", value |-> Q(99)],
     [key |-> "pond_ch4_n2o", sub |-> "efs_used_g_m2_day", field |-> "ch4", value |-> Zero],
     [key |-> "mrv_metadata", sub |-> "", field |-> "operator", value |-> "farm-2"]}

\* The caller assigns to an entry of the audit record of its first result.
Mutate ==
    /\ pc = "done"
    /\ history = << >>
    /\ \E w \in Writes :
           /\ w.key \in DOMAIN result.inputs
           /\ w.sub # "" => result.inputs[w.key][w.sub] # NoneRec
           /\ result' = [result EXCEPT !.inputs = WriteAudit(@, w)]
           /\ resolved_inputs' = WriteAudit(resolved_inputs, w)
           /\ inputs' = WriteRequest(inputs, w)
    /\ UNCHANGED <<pc, frac_year, breakdown, exc, error, invoked, history, peer>>

\* The caller keeps the result and calls estimate once more with the same
\* request object.
Again ==
    /\ pc = "done"
    /\ history = << >>
    /\ history' = <<result>>
    /\ Enter
    /\ UNCHANGED <<inputs, peer>>

RepeatedRequests ==
    {EstimatorInputs(One, "A", [Everything EXCEPT !.time = t, !.pumping = p]) :
        t \in TimeNominal, p \in {NoneRec, Metered(Q(100))}}

\* A call that has not taken a step, made by a caller with no earlier result.
Entered ==
    /\ pc = InitFrame.pc
    /\ frac_year = InitFrame.frac_year
    /\ breakdown = InitFrame.breakdown
    /\ resolved_inputs = InitFrame.resolved_inputs
    /\ result = InitFrame.result
    /\ exc = InitFrame.exc
    /\ error = InitFrame.error
    /\ invoked = InitFrame.invoked
    /\ history = << >>

InitRepeat == inputs \in RepeatedRequests /\ Entered /\ peer = NoneRec

NextRepeat ==
    \/ Next
    \/ Mutate
    \/ Again

SpecRepeat == InitRepeat /\ [][NextRepeat]_vars

\* One conversion evaluated for a whole year, year after year: the caller
\* keeps each year's result and asks for the next year.
NextYear ==
    /\ pc = "done"
    /\ Len(history) < MaxYears
    /\ history' = Append(history, result)
    /\ inputs' = [inputs EXCEPT !.luluc.years_since_conversion = Add(@, One)]
    /\ Enter
    /\ UNCHANGED peer

YearlyRequests ==
    {Single("luluc", Allocation(Zero, Q(n), Q(w), f), <<"year", Q(90)>>) :
        n \in {2, 20}, w \in {0, 2, 5}, f \in {Zero, <<7, 10>>, One}}

InitYearly == inputs \in YearlyRequests /\ Entered /\ peer = NoneRec

NextYearly ==
    \/ Next
    \/ NextYear

SpecYearly == InitYearly /\ [][NextYearly]_vars

\* Variant: breakdown is a dictionary of the module, shared by the calls.
Locals_module_level(own, others) == [own EXCEPT !.breakdown = others.breakdown @@ @]

\* The frame a step of a call works on: breakdown, resolved_inputs and the
\* other names of estimate are created inside the call, and the tables of
\* the modules are only read.
Locals(own, others) == own

\* A step of the second caller's call.
OtherStep ==
    /\ peer.frame.pc \notin {"done", "failed"}
    /\ peer' = [peer EXCEPT !.frame = Step(peer.inputs, Locals(peer.frame, Frame))]
    /\ UNCHANGED <<inputs, pc, frac_year, breakdown, resolved_inputs, result, exc, error,
                   invoked, history>>

\* Requests that share no object: each caller builds its own.
IndependentRequests ==
    {EstimatorInputs(Q(h), "A", [Everything EXCEPT !.pumping = p, !.feed = f]) :
        h \in {0, 1}, p \in {Metered(Q(100)), Metered(None), PumpingNominal},
        f \in {FeedAbsent, FeedNominal}}

InitCallers ==
    /\ inputs \in IndependentRequests
    /\ Entered
    /\ peer \in [inputs : IndependentRequests, frame : {InitFrame}]

NextCallers ==
    \/ Next
    \/ OtherStep

SpecCallers == InitCallers /\ [][NextCallers]_vars

TypeOK ==
    /\ pc \in {"start", "pumping", "aeration", "feed", "seed", "luluc",
               "sequestration", "pond_ch4_n2o", "sum", "done", "failed"}
    /\ DOMAIN breakdown \subseteq Sources

(***************************************************************************)
(* Properties.                                                             *)
(***************************************************************************)
Accepted == pc = "done"

\* A breakdown entry, 0 for a key that is not there.
Entry(b, k) == IF k \in DOMAIN b THEN b[k] ELSE Zero

\* The sources a request carries.
Present(inp) ==
    {k \in Sources :
        \/ k = "pumping" /\ inp.pumping # NoneRec
        \/ k = "aeration" /\ inp.aeration # NoneRec
        \/ k = "feed" /\ (inp.feed_input_mode = "fcr" \/ inp.total_feed_kg # None)
        \/ k = "seed" /\ inp.seed_thousand_pl # None
        \/ k = "luluc" /\ inp.luluc # NoneRec
        \/ k = "sequestration" /\ inp.sequestration # NoneRec
        \/ k = "pond_ch4_n2o" /\ inp.pond_ghg # NoneRec}

\* The period fraction of a year the specification names.
PeriodFraction(inp) ==
    IF inp.period = "year" THEN One ELSE Rat(inp.cycle_days[1], 365 * inp.cycle_days[2])

\* C1: for every accepted request, total_kgco2e is the sum of the breakdown
\* entries and intensity_kgco2e_per_kg_shrimp is total_kgco2e divided by
\* harvested_shrimp_kg.
C1_TotalIsSumAndIntensityIsRatio ==
    Accepted =>
        LET b == result.breakdown_kgco2e IN
        /\ result.total_kgco2e =
               Add(Entry(b, "pumping"), Add(Entry(b, "aeration"), Add(Entry(b, "feed"),
               Add(Entry(b, "seed"), Add(Entry(b, "luluc"), Add(Entry(b, "sequestration"),
                   Entry(b, "pond_ch4_n2o")))))))
        /\ Mul(result.intensity_kgco2e_per_kg_shrimp, inputs.harvested_shrimp_kg)
               = result.total_kgco2e

C1_Witness ==
    /\ Accepted
    /\ DOMAIN result.breakdown_kgco2e = Sources
    /\ inputs.harvested_shrimp_kg = Q(2)
    /\ IsNeg(result.breakdown_kgco2e["sequestration"])
    /\ IsPos(result.total_kgco2e)

\* C2: for every accepted request, the keys of the breakdown and the keys of
\* the audit record other than mrv_metadata are exactly the sources present
\* in the request; with only total_feed_kg supplied the breakdown is the
\* single key feed and the total is that entry.
C2_KeysAreThePresentSources ==
    Accepted =>
        /\ DOMAIN result.breakdown_kgco2e = Present(inputs)
        /\ DOMAIN result.inputs \ {"mrv_metadata"} = Present(inputs)
        /\ (inputs.feed_input_mode = "total" /\ Present(inputs) = {"feed"}) =>
               /\ DOMAIN result.breakdown_kgco2e = {"feed"}
               /\ result.total_kgco2e = result.breakdown_kgco2e["feed"]

C2_Witness ==
    /\ Accepted
    /\ inputs.feed_input_mode = "total"
    /\ Present(inputs) = {"feed"}
    /\ inputs.mrv_metadata # NoneRec
    /\ IsPos(result.total_kgco2e)

\* C3: for every accepted request with a LULUC source, the luluc entry is the
\* annual allocation multiplied once by the period fraction of a year.
C3_LulucScaledOnce ==
    (Accepted /\ inputs.luluc # NoneRec) =>
        result.breakdown_kgco2e["luluc"] =
            Mul(luluc_emissions_kgco2e_per_year(inputs.luluc).val, PeriodFraction(inputs))

\* C4: for every accepted request with a sequestration source, the entry is
\* minus the annual removal times the period fraction, and is strictly
\* negative whenever the vegetated area is greater than 0.
C4_SequestrationNegatedAndScaled ==
    (Accepted /\ inputs.sequestration # NoneRec) =>
        /\ result.breakdown_kgco2e["sequestration"] =
               Neg(Mul(sequestration_kgco2e(inputs.sequestration).val, PeriodFraction(inputs)))
        /\ IsPos(inputs.sequestration.area_ha) =>
               IsNeg(result.breakdown_kgco2e["sequestration"])

\* C5: for every accepted request, every breakdown entry other than
\* sequestration is >= 0 and the sequestration entry is <= 0.
C5_EntrySigns ==
    Accepted =>
        \A k \in DOMAIN result.breakdown_kgco2e :
            IF k = "sequestration"
            THEN ~IsPos(result.breakdown_kgco2e[k])
            ELSE ~IsNeg(result.breakdown_kgco2e[k])

\* C6: with harvested_shrimp_kg <= 0 estimate fails on the harvested mass
\* before any per-source calculator is invoked, whatever the sources hold.
C6_HarvestCheckedFirst ==
    (pc # "start" /\ ~IsPos(inputs.harvested_shrimp_kg)) =>
        /\ pc = "failed"
        /\ exc = "ValueError"
        /\ error = "harvested_shrimp_kg must be > 0"
        /\ invoked = {}
        /\ breakdown = EmptyDict
        /\ result = NoneRec

C6_Witness ==
    /\ pc = "failed"
    /\ inputs.harvested_shrimp_kg = Zero
    /\ inputs.seed_thousand_pl = Q(-1)
    /\ inputs.pumping # NoneRec

\* The calculator outcomes of the sources a request carries.
Outcomes(inp) ==
    {resolve_total_feed_kg(inp)}
    \cup (IF inp.pumping # NoneRec THEN {pumping_emissions_kgco2e(inp.pumping)} ELSE {})
    \cup (IF inp.aeration # NoneRec THEN {aeration_emissions_kgco2e(inp.aeration)} ELSE {})
    \cup (IF resolve_total_feed_kg(inp).ok /\ resolve_total_feed_kg(inp).val # None
          THEN {feed_emissions_kgco2e(resolve_total_feed_kg(inp).val, inp.boundary,
                                      inp.feed_emission_intensity_kgco2e_per_kg)}
          ELSE {})
    \cup (IF inp.seed_thousand_pl # None
          THEN {seed_emissions_kgco2e(inp.seed_thousand_pl, inp.boundary,
                                      inp.seed_emission_intensity_kgco2e_per_thousand_pl)}
          ELSE {})
    \cup (IF inp.luluc # NoneRec THEN {luluc_emissions_kgco2e(inp.luluc)} ELSE {})
    \cup (IF inp.sequestration # NoneRec THEN {sequestration_kgco2e(inp.sequestration)} ELSE {})
    \cup (IF inp.pond_ghg # NoneRec
          THEN {[pond_ch4_n2o_mrv(inp.pond_ghg, inp.period, inp.cycle_days) EXCEPT !.val = None]}
          ELSE {})

\* C7: when the calculator of a present source (or the feed-conversion-ratio
\* validation) fails, estimate fails and returns no result record; a result
\* is returned only when nothing has failed.
C7_NoPartialResult ==
    /\ pc # "done" => result = NoneRec
    /\ pc = "done" => \A o \in Outcomes(inputs) : o.ok

C7_Witness ==
    /\ pc = "failed"
    /\ IsPos(inputs.harvested_shrimp_kg)
    /\ {"pumping", "aeration", "feed"} \subseteq DOMAIN breakdown
    /\ "seed_emissions_kgco2e" \in invoked
    /\ result = NoneRec

OtherBoundary(b) == IF b = "A" THEN "B" ELSE "A"

\* C8: two requests that differ only in the boundary mode are both rejected
\* or both accepted with identical breakdown, total and intensity.
C8_BoundaryIsAuditOnly ==
    pc \in {"done", "failed"} =>
        LET other == estimate([inputs EXCEPT !.boundary = OtherBoundary(@)]) IN
        /\ other.pc = pc
        /\ other.error = error
        /\ Accepted =>
               /\ other.result.breakdown_kgco2e = result.breakdown_kgco2e
               /\ other.result.total_kgco2e = result.total_kgco2e
               /\ other.result.intensity_kgco2e_per_kg_shrimp
                      = result.intensity_kgco2e_per_kg_shrimp
               /\ other.result.boundary # result.boundary

C8_Witness ==
    /\ Accepted
    /\ inputs.boundary = "A"
    /\ inputs.feed_emission_intensity_kgco2e_per_kg = Q(5)
    /\ "feed" \in DOMAIN result.breakdown_kgco2e
    /\ result.breakdown_kgco2e["feed"] = Q(10)
    /\ "seed" \in DOMAIN result.breakdown_kgco2e

\* The feed mass handed to feed_emissions_kgco2e.
FeedMass(inp) ==
    IF inp.feed_input_mode = "fcr" THEN Mul(inp.fcr, inp.harvested_shrimp_kg)
    ELSE inp.total_feed_kg

\* The intensity a calculator applies: the override when supplied, else d.
Applied(override, d) == IF override # None THEN override ELSE d

\* C9: feed_emissions_kgco2e returns total_feed_kg times the override, else
\* times 8.7; seed_emissions_kgco2e returns thousand_pl times the override,
\* else times 0.23; each fails on a negative mass/count or a negative
\* applied intensity.
C9_FeedAndSeedFormula ==
    /\ "feed_emissions_kgco2e" \in invoked =>
           LET ef == Applied(inputs.feed_emission_intensity_kgco2e_per_kg, <<87, 10>>)
               bad == IsNeg(FeedMass(inputs)) \/ IsNeg(ef)
           IN  /\ bad <=> "feed" \notin DOMAIN breakdown
               /\ bad => (pc = "failed" /\ exc = "ValueError")
               /\ ~bad => breakdown["feed"] = Mul(FeedMass(inputs), ef)
    /\ "seed_emissions_kgco2e" \in invoked =>
           LET ef == Applied(inputs.seed_emission_intensity_kgco2e_per_thousand_pl, <<23, 100>>)
               bad == IsNeg(inputs.seed_thousand_pl) \/ IsNeg(ef)
           IN  /\ bad <=> "seed" \notin DOMAIN breakdown
               /\ bad => (pc = "failed" /\ exc = "ValueError")
               /\ ~bad => breakdown["seed"] = Mul(inputs.seed_thousand_pl, ef)

C9_Witness ==
    /\ Accepted
    /\ inputs.seed_emission_intensity_kgco2e_per_thousand_pl = <<1, 2>>
    /\ {"feed", "seed"} \subseteq DOMAIN breakdown
    /\ breakdown["seed"] = One
    /\ inputs.feed_emission_intensity_kgco2e_per_kg = None
    /\ breakdown["feed"] = <<87, 5>>

\* C10: in mode fcr the feed mass is fcr times harvested_shrimp_kg whatever
\* total_feed_kg is, the feed entry is always there, and a missing or
\* negative fcr fails; in mode total the feed mass is total_feed_kg and the
\* feed entry is there exactly when total_feed_kg is supplied.
C10_FeedMassByMode ==
    /\ (pc \notin {"start", "pumping", "aeration", "feed", "failed"}
        /\ inputs.feed_input_mode = "fcr") =>
           /\ inputs.fcr # None
           /\ ~IsNeg(inputs.fcr)
           /\ "feed" \in DOMAIN breakdown
           /\ resolved_inputs["feed"].total_feed_kg
                  = Mul(inputs.fcr, inputs.harvested_shrimp_kg)
           /\ breakdown["feed"] =
                  Mul(Mul(inputs.fcr, inputs.harvested_shrimp_kg),
                      Applied(inputs.feed_emission_intensity_kgco2e_per_kg, <<87, 10>>))
    /\ (pc \notin {"start", "pumping", "aeration", "feed", "failed"}
        /\ inputs.feed_input_mode = "total") =>
           /\ "feed" \in DOMAIN breakdown <=> inputs.total_feed_kg # None
           /\ inputs.total_feed_kg # None =>
                  /\ resolved_inputs["feed"].total_feed_kg = inputs.total_feed_kg
                  /\ breakdown["feed"] =
                         Mul(inputs.total_feed_kg,
                             Applied(inputs.feed_emission_intensity_kgco2e_per_kg, <<87, 10>>))

C10_Witness ==
    /\ Accepted
    /\ inputs.feed_input_mode = "fcr"
    /\ inputs.total_feed_kg = Q(2)
    /\ inputs.fcr = <<3, 2>>
    /\ inputs.harvested_shrimp_kg = Q(2)
    /\ "feed" \in DOMAIN resolved_inputs
    /\ resolved_inputs["feed"].total_feed_kg = Q(3)

\* The grid factor of an energy model: the override when supplied, else the
\* country's default, else none.
GridFactor(src) ==
    IF src.grid_ef_kgco2e_per_kwh # None THEN src.grid_ef_kgco2e_per_kwh
    ELSE IF src.grid_country \in GridCountries THEN DEFAULT_GRID_EF_KG_PER_KWH[src.grid_country]
    ELSE None

\* The rule of C11 for an energy model src whose energy e was computed
\* and whose calculator has been called, the entry being breakdown[key].
GridRule(src, e, key) ==
    /\ src.energy_source = "grid" =>
           IF GridFactor(src) = None
           THEN /\ pc = "failed"
                /\ exc = "ValueError"
                /\ error = "Unknown grid_country. Provide grid_ef_kgco2e_per_kwh to override."
                /\ key \notin DOMAIN breakdown
           ELSE /\ key \in DOMAIN breakdown
                /\ breakdown[key] = Mul(e, GridFactor(src))
    /\ src.energy_source \in {"diesel", "petrol"} => key \in DOMAIN breakdown

\* C11: for pumping and for aeration on the grid, emissions are energy times
\* the grid factor override when one is supplied (country known or not),
\* else energy times the country's default factor, and the calculation
\* fails when the country is unknown and no override is supplied; on diesel
\* or petrol an unknown country never causes a failure.
C11_GridFactorOverrideElseCountry ==
    /\ ("pumping_emissions_kgco2e" \in invoked /\ pumping_energy_kwh(inputs.pumping).ok) =>
           GridRule(inputs.pumping, pumping_energy_kwh(inputs.pumping).val, "pumping")
    /\ ("aeration_emissions_kgco2e" \in invoked /\ aeration_energy_kwh(inputs.aeration).ok) =>
           GridRule(inputs.aeration, aeration_energy_kwh(inputs.aeration).val, "aeration")

C11_Witness ==
    /\ Accepted
    /\ inputs.pumping # NoneRec
    /\ inputs.pumping.energy_source = "grid"
    /\ inputs.pumping.grid_country = "Atlantis"
    /\ inputs.pumping.grid_ef_kgco2e_per_kwh = <<1, 2>>
    /\ inputs.pumping.method = "metered_kwh"
    /\ breakdown["pumping"] = Q(50)

\* A fraction brought into [0, 1].
Clamp01(x) == IF IsNeg(x) THEN Zero ELSE IF Lt(One, x) THEN One ELSE x

\* T: the soil stock (sum of the three layers) x area x 3.67, in t CO2.
EventMagnitude(l) ==
    LET layers == DEFAULT_SOC_TONNES_C_PER_HA[l.soil_type]
    IN  Mul(Mul(Add(layers[1], Add(layers[2], layers[3])), l.area_ha), <<367, 100>>)

\* The requests whose luluc entry is the annual allocation itself: a whole
\* year reported, the conversion's own cycle a whole year too.
AnnualLuluc ==
    /\ "luluc" \in DOMAIN breakdown
    /\ inputs.period = "year"
    /\ inputs.luluc.cycle_days = Q(365)

\* C12: with T the event magnitude and f the immediate fraction, the annual
\* LULUC allocation at years-since-conversion 0 (immediate window >= 0) is
\* (f*T + (1-f)*T/amortization_years) x 1000; at years-since-conversion >=
\* amortization_years it is f*T x 1000 if years-since-conversion <= the
\* immediate window, else exactly 0.
C12_LulucAnnualAllocation ==
    AnnualLuluc =>
        LET l == inputs.luluc
            y == Applied(l.years_since_conversion, l.farm_age_years)
            T == EventMagnitude(l)
            f == Clamp01(l.immediate_release_fraction)
        IN  /\ (y = Zero /\ ~IsNeg(l.immediate_window_years)) =>
                   breakdown["luluc"] =
                       Mul(Add(Mul(f, T), Div(Mul(Sub(One, f), T), l.amortization_years)),
                           Q(1000))
            /\ Le(l.amortization_years, y) =>
                   breakdown["luluc"] =
                       IF Le(y, l.immediate_window_years) THEN Mul(Mul(f, T), Q(1000)) ELSE Zero

C12_Witness ==
    /\ Accepted
    /\ AnnualLuluc
    /\ inputs.luluc.years_since_conversion = Q(2)
    /\ inputs.luluc.amortization_years = Q(2)
    /\ inputs.luluc.immediate_window_years = Q(2)
    /\ inputs.luluc.immediate_release_fraction = <<7, 10>>
    /\ inputs.luluc.area_ha = One
    /\ breakdown["luluc"] = Q(61656)

\* C13: LULUC takes years_since_conversion when supplied, else the legacy
\* farm_age_years, and fails when neither is supplied; it fails too when
\* the resolved value is negative, when area is negative, when cycle_days
\* <= 0 or when amortization_years <= 0.
C13_LulucYearsResolutionAndValidation ==
    "luluc_emissions_kgco2e" \in invoked =>
        LET l == inputs.luluc
            y == IF l.years_since_conversion # None THEN l.years_since_conversion
                 ELSE l.farm_age_years
            bad == \/ y = None
                   \/ IsNeg(y)
                   \/ IsNeg(l.area_ha)
                   \/ ~IsPos(l.cycle_days)
                   \/ ~IsPos(l.amortization_years)
            alone == [l EXCEPT !.years_since_conversion = y, !.farm_age_years = None]
        IN  /\ bad => /\ pc = "failed"
                      /\ exc = "ValueError"
                      /\ "luluc" \notin DOMAIN breakdown
            /\ (~IsNeg(l.area_ha) /\ IsPos(l.cycle_days) /\ IsPos(l.amortization_years)
                /\ y = None) =>
                   error = "Provide either years_since_conversion or farm_age_years."
            /\ (~bad /\ l.soil_type \in SoilTypes) =>
                   /\ "luluc" \in DOMAIN breakdown
                   /\ breakdown["luluc"] = Mul(luluc_emissions_kgco2e(alone).val, frac_year)

C13_Witness ==
    /\ Accepted
    /\ inputs.luluc # NoneRec
    /\ inputs.luluc.years_since_conversion = Zero
    /\ inputs.luluc.farm_age_years = Q(MaxYears)
    /\ inputs.period = "year"
    /\ breakdown["luluc"] = Q(74868)

\* The lower heating value an aerator on fuel divides by.
LhvUsed(a) ==
    IF a.energy_source = "diesel" THEN a.diesel_lhv_mj_per_liter ELSE a.petrol_lhv_mj_per_liter

\* The immediate-release fraction is clamped: the luluc entry is the one of
\* the request whose fraction is already brought into [0, 1].
FractionClamped ==
    "luluc" \in DOMAIN breakdown =>
        LET l == inputs.luluc
            clamped == [l EXCEPT !.immediate_release_fraction = Clamp01(@)]
        IN  breakdown["luluc"] = Mul(luluc_emissions_kgco2e(clamped).val, frac_year)

\* C14: the immediate-release fraction is clamped, not rejected (below 0
\* counts as 0, above 1 as 1, inside [0,1] unchanged), and no other
\* out-of-range numeric input is accepted with another value in its place:
\* in particular an aerator on fuel is accepted only with a positive lower
\* heating value to divide by.
C14_OnlyTheFractionIsClamped ==
    /\ FractionClamped
    /\ (Accepted /\ inputs.aeration # NoneRec /\ inputs.aeration.energy_source # "grid") =>
           IsPos(LhvUsed(inputs.aeration))

\* C15: every failure of estimate and of the per-source calculators is a
\* validation failure (ValueError); no input makes the core fail in another
\* way, such as a division by zero or a missing-key failure.
C15_EveryFailureIsValidation ==
    pc = "failed" => exc = "ValueError"

\* C16: estimate fails for every request with period cycle whose cycle_days
\* is not positive, whichever sources are present; no result is computed
\* with a zero or negative period fraction.
C16_NonPositiveCycleRejected ==
    /\ (inputs.period = "cycle" /\ ~IsPos(inputs.cycle_days)) => pc # "done"
    /\ Accepted => IsPos(frac_year)

\* The period days of a request: 365 for a year, else the cycle length.
PeriodDays(inp) == IF inp.period = "year" THEN Q(365) ELSE inp.cycle_days

\* The pond entry is there: the pond calculator returned.
PondOk == "pond_ch4_n2o" \in DOMAIN breakdown

\* The factor of tier default or measured before any scaling; None when
\* it is missing.
Chosen(p, measured, override, table) ==
    IF p.method_tier = "tier3_measured" THEN measured
    ELSE IF override # None THEN override
    ELSE IF p.system_type \in SystemTypes THEN table[p.system_type]
    ELSE None

\* C17: tier measured fails unless both measured rates are supplied; tier
\* organic-matter-scaled fails unless a summary is supplied; tier default
\* needs neither.  In every tier the calculation fails when pond area is
\* negative, when the period days are negative, or when a factor finally
\* chosen is negative.
C17_PondTierRequirements ==
    "pond_ch4_n2o_mrv" \in invoked =>
        LET p == inputs.pond_ghg
            ch4 == Chosen(p, p.measured_ch4_g_m2_day, p.ch4_ef_g_m2_day, CH4_G_M2_DAY)
            n2o == Chosen(p, p.measured_n2o_g_m2_day, p.n2o_ef_g_m2_day, N2O_G_M2_DAY)
            bad == \/ IsNeg(p.pond_area_m2)
                   \/ IsNeg(PeriodDays(inputs))
                   \/ (p.method_tier = "tier3_measured"
                       /\ (p.measured_ch4_g_m2_day = None \/ p.measured_n2o_g_m2_day = None))
                   \/ (p.method_tier = "tier2_tom_scaled" /\ p.tom = NoneRec)
                   \/ (ch4 # None /\ IsNeg(ch4))
                   \/ (n2o # None /\ IsNeg(n2o))
        IN  /\ bad => (~PondOk /\ pc = "failed")
            /\ PondOk =>
                   /\ ~IsNeg(resolved_inputs["pond_ch4_n2o"].efs_used_g_m2_day.ch4)
                   /\ ~IsNeg(resolved_inputs["pond_ch4_n2o"].efs_used_g_m2_day.n2o)
            /\ (~bad /\ p.method_tier = "tier1_default" /\ ch4 # None /\ n2o # None) => PondOk

C17_Witness ==
    /\ Accepted
    /\ inputs.pond_ghg # NoneRec
    /\ inputs.pond_ghg.method_tier = "tier3_measured"
    /\ inputs.pond_ghg.system_type = "super"
    /\ inputs.pond_ghg.tom = NoneRec
    /\ inputs.period = "cycle"
    /\ breakdown["pond_ch4_n2o"] = <<39639, 100>>

\* The rule of C18 for a multiplier m applied at concentration om with
\* the parameters of p and the scaling parameter a.
SaturatingRule(p, om, a, m) ==
    /\ Le(One, m)
    /\ Lt(m, Add(One, a))
    /\ Le(om, p.tom_om_min_mg_l) => m = One
    /\ Le(m, tom_multiplier_saturating(Add(om, Q(OMStep)), p.tom_om_min_mg_l,
                                       p.tom_k_mg_l, a).val)

\* The accepted tier-2 requests that scale the defaults of a known class.
ScaledDefaults ==
    /\ PondOk
    /\ inputs.pond_ghg.method_tier = "tier2_tom_scaled"
    /\ inputs.pond_ghg.system_type \in SystemTypes
    /\ inputs.pond_ghg.ch4_ef_g_m2_day = None
    /\ inputs.pond_ghg.n2o_ef_g_m2_day = None

\* C18: for every concentration >= 0 and every accepted parameter set, the
\* tier-2 multiplier is at least 1, strictly below 1 + a, exactly 1 at a
\* concentration up to the floor, and non-decreasing in the concentration.
C18_TomMultiplierBoundedMonotone ==
    ScaledDefaults =>
        LET p == inputs.pond_ghg
            used == resolved_inputs["pond_ch4_n2o"].efs_used_g_m2_day
            om_for_ch4 == IF p.tom_use_p90_for_ch4 /\ p.tom.om_p90_mg_l # None
                          THEN p.tom.om_p90_mg_l ELSE p.tom.om_avg_mg_l
        IN  /\ SaturatingRule(p, om_for_ch4, p.tom_a_ch4,
                              Div(used.ch4, CH4_G_M2_DAY[p.system_type]))
            /\ SaturatingRule(p, p.tom.om_avg_mg_l, p.tom_a_n2o,
                              Div(used.n2o, N2O_G_M2_DAY[p.system_type]))

\* C19: the pond result is reproducible from its audit record: total_kgco2e
\* = (efs_used.ch4 x gwps_used.ch4 + efs_used.n2o x gwps_used.n2o) x pond
\* area x days_used / 1000, days_used being 365 for period year and the
\* cycle length otherwise, gwps_used {ch4: 27, n2o: 273} and
\* method_tier_used the tier requested.
C19_PondTotalFromAudit ==
    PondOk =>
        LET p == inputs.pond_ghg
            audit == resolved_inputs["pond_ch4_n2o"]
            efs == audit.efs_used_g_m2_day
            gwps == audit.gwps_used
            days_used == pond_ch4_n2o_mrv(p, inputs.period, inputs.cycle_days).val.days_used
        IN  /\ days_used = (IF inputs.period = "year" THEN Q(365) ELSE inputs.cycle_days)
            /\ gwps = [ch4 |-> Q(27), n2o |-> Q(273)]
            /\ audit.method_tier_used = p.method_tier
            /\ breakdown["pond_ch4_n2o"] =
                   Div(Mul(Mul(Add(Mul(efs.ch4, gwps.ch4), Mul(efs.n2o, gwps.n2o)),
                               p.pond_area_m2), days_used), Q(1000))

C19_Witness ==
    /\ Accepted
    /\ PondOk
    /\ inputs.period = "year"
    /\ inputs.cycle_days = Q(90)
    /\ inputs.pond_ghg.method_tier = "tier2_tom_scaled"
    /\ inputs.pond_ghg.tom.om_avg_mg_l = Q(20)
    /\ inputs.pond_ghg.tom.om_p90_mg_l = None
    /\ inputs.pond_ghg.tom_om_min_mg_l = Zero
    /\ inputs.pond_ghg.tom_k_mg_l = Q(20)
    /\ inputs.pond_ghg.tom_a_ch4 = <<3, 2>>
    /\ resolved_inputs["pond_ch4_n2o"].efs_used_g_m2_day.ch4 = <<49, 800>>
    /\ IsPos(breakdown["pond_ch4_n2o"])

\* The pumping entry is energy times the grid factor; the pumps of these
\* requests are on a grid whose factor is known.
OnKnownGrid(p) == p.energy_source = "grid" /\ GridFactor(p) # None

\* C20: with method metered the pumping energy is exactly the metered kWh,
\* whatever the volume (>= 0) and the hydraulic parameters, and it fails
\* when the metered kWh is missing or negative; with method
\* specific-energy it is volume times the factor, and it fails when the
\* factor is missing or negative.
C20_PumpingEnergyByMethod ==
    "pumping_emissions_kgco2e" \in invoked =>
        LET p == inputs.pumping
            stored == "pumping" \in DOMAIN breakdown
            rejected == ~stored /\ pc = "failed" /\ exc = "ValueError"
        IN  /\ (p.method = "metered_kwh" /\ ~IsNeg(p.volume_m3)) =>
                   IF p.metered_kwh = None \/ IsNeg(p.metered_kwh) THEN rejected
                   ELSE OnKnownGrid(p) =>
                            /\ stored
                            /\ breakdown["pumping"] = Mul(p.metered_kwh, GridFactor(p))
            /\ p.method = "specific_energy" =>
                   IF p.specific_energy_kwh_per_m3 = None \/ IsNeg(p.specific_energy_kwh_per_m3)
                   THEN rejected
                   ELSE (OnKnownGrid(p) /\ ~IsNeg(p.volume_m3)) =>
                            /\ stored
                            /\ breakdown["pumping"] =
                                   Mul(Mul(p.volume_m3, p.specific_energy_kwh_per_m3),
                                       GridFactor(p))

C20_Witness ==
    /\ Accepted
    /\ inputs.pumping # NoneRec
    /\ inputs.pumping.method = "metered_kwh"
    /\ inputs.pumping.metered_kwh = Q(100)
    /\ inputs.pumping.volume_m3 = Zero
    /\ inputs.pumping.pipe_diameter_m = Zero
    /\ inputs.pumping.gravity_m_s2 = Zero
    /\ breakdown["pumping"] = <<83, 2>>

\* The requests the hydraulic method refuses.
HydraulicRefused(p) ==
    \/ IsNeg(p.volume_m3)
    \/ ~IsPos(p.pipe_diameter_m)
    \/ ~IsPos(p.pump_efficiency) \/ Lt(One, p.pump_efficiency)
    \/ p.pumping_duration_hours # None /\ ~IsPos(p.pumping_duration_hours)
    \/ p.pumping_duration_hours = None /\ ~IsPos(p.assumed_velocity_m_s)

\* C21: in hydraulic mode pumping fails when the volume is negative, the
\* pipe diameter is not positive, the pump efficiency is outside (0, 1],
\* a duration is supplied and is not positive, or no duration is supplied
\* and the assumed velocity is not positive; every other hydraulic request
\* is evaluated. With method metered or specific-energy the diameter,
\* efficiency, duration and velocity are not checked.
C21_HydraulicValidation ==
    "pumping_emissions_kgco2e" \in invoked =>
        LET p == inputs.pumping
            stored == "pumping" \in DOMAIN breakdown
            rejected == ~stored /\ pc = "failed" /\ exc = "ValueError"
        IN  IF p.method = "hydraulic"
            THEN /\ HydraulicRefused(p) => rejected
                 /\ (~HydraulicRefused(p) /\ p.gravity_m_s2 # Zero /\ OnKnownGrid(p)) => stored
            ELSE (/\ ~IsNeg(p.volume_m3)
                  /\ OnKnownGrid(p)
                  /\ p.metered_kwh # None /\ ~IsNeg(p.metered_kwh)
                  /\ p.specific_energy_kwh_per_m3 # None
                  /\ ~IsNeg(p.specific_energy_kwh_per_m3)) => stored

C21_Witness ==
    /\ pc = "failed"
    /\ exc = "ValueError"
    /\ inputs.pumping # NoneRec
    /\ inputs.pumping.method = "hydraulic"
    /\ inputs.pumping.pump_efficiency = Q(2)
    /\ inputs.pumping.pipe_diameter_m = <<3, 2>>
    /\ inputs.pumping.gravity_m_s2 = <<981, 100>>
    /\ inputs.cycle_days = Q(73)
    /\ error = "pump_efficiency must be in (0, 1]"

\* The requests that differ from p only in a larger static head, or only
\* in a longer pipe.
Raised(p) ==
    {[p EXCEPT !.static_head_m = h] : h \in {x \in Heads : Lt(p.static_head_m, x)}}
    \cup {[p EXCEPT !.pipe_length_m = l] : l \in {x \in Lengths : Lt(p.pipe_length_m, x)}}

\* C22: of two accepted hydraulic requests that differ only in the static
\* head, or only in the pipe length, the one with the larger head (the
\* longer pipe) never has the smaller pumping energy, with the duration
\* given and with the velocity assumed.
C22_EnergyMonotoneInHeadAndLength ==
    LET p == inputs.pumping IN
    (/\ "pumping" \in DOMAIN breakdown
     /\ p.method = "hydraulic"
     /\ OnKnownGrid(p) /\ IsPos(GridFactor(p))) =>
        \A q \in Raised(p) :
            LET e == pumping_energy_kwh(q) IN
            e.ok => Le(Div(breakdown["pumping"], GridFactor(p)), e.val)

\* The aerators the energy calculation refuses.
AerationRefused(a) ==
    \/ IsNeg(a.total_aeration_hp)
    \/ IsNeg(a.operating_hours)
    \/ ~IsPos(a.motor_efficiency) \/ Lt(One, a.motor_efficiency)
    \/ ~IsPos(a.blower_efficiency) \/ Lt(One, a.blower_efficiency)

\* C23: the aeration energy is horsepower x 0.7457 / (motor efficiency x
\* blower efficiency) x operating hours; it fails on a negative
\* horsepower, negative hours, or an efficiency that is <= 0 or > 1; an
\* accepted energy is >= 0, and it is 0 exactly when the horsepower or the
\* hours are 0.
C23_AerationEnergy ==
    "aeration_emissions_kgco2e" \in invoked =>
        LET a == inputs.aeration
            stored == "aeration" \in DOMAIN breakdown
            rejected == ~stored /\ pc = "failed" /\ exc = "ValueError"
        IN  IF AerationRefused(a) THEN rejected
            ELSE (OnKnownGrid(a) /\ IsPos(GridFactor(a))) =>
                     /\ stored
                     /\ LET e_kwh == Div(breakdown["aeration"], GridFactor(a)) IN
                         /\ Mul(e_kwh, Mul(a.motor_efficiency, a.blower_efficiency)) =
                                Mul(Mul(a.total_aeration_hp, <<7457, 10000>>), a.operating_hours)
                         /\ ~IsNeg(e_kwh)
                         /\ e_kwh = Zero <=>
                                (a.total_aeration_hp = Zero \/ a.operating_hours = Zero)

C23_Witness ==
    /\ Accepted
    /\ inputs.aeration # NoneRec
    /\ inputs.aeration.total_aeration_hp = Q(8)
    /\ inputs.aeration.operating_hours = Q(100)
    /\ inputs.aeration.motor_efficiency = <<4, 5>>
    /\ inputs.aeration.blower_efficiency = <<1, 2>>
    /\ inputs.aeration.energy_source = "grid"
    /\ breakdown["aeration"] = Mul(<<7457, 5>>, <<83, 200>>)

\* C24: for every source in the breakdown the audit record reports the
\* emission factor that was applied: the feed and seed entries carry the
\* intensity used (8.7 and 0.23 when there is no override), and the
\* pumping and aeration entries of a grid-powered source carry the grid
\* factor used (the country default when there is no override).
C24_AuditReportsAppliedFactor ==
    Accepted =>
        LET audit == result.inputs IN
        /\ "feed" \in DOMAIN result.breakdown_kgco2e =>
               audit["feed"].emission_intensity_kgco2e_per_kg =
                   Applied(inputs.feed_emission_intensity_kgco2e_per_kg, <<87, 10>>)
        /\ "seed" \in DOMAIN result.breakdown_kgco2e =>
               audit["seed"].emission_intensity_kgco2e_per_thousand_pl =
                   Applied(inputs.seed_emission_intensity_kgco2e_per_thousand_pl, <<23, 100>>)
        /\ ("pumping" \in DOMAIN result.breakdown_kgco2e
                /\ inputs.pumping.energy_source = "grid") =>
               audit["pumping"].grid_ef_kgco2e_per_kwh = GridFactor(inputs.pumping)
        /\ ("aeration" \in DOMAIN result.breakdown_kgco2e
                /\ inputs.aeration.energy_source = "grid") =>
               audit["aeration"].grid_ef_kgco2e_per_kwh = GridFactor(inputs.aeration)

\* The figures of a returned result.
Figures(r) ==
    [total_kgco2e |-> r.total_kgco2e,
     intensity_kgco2e_per_kg_shrimp |-> r.intensity_kgco2e_per_kg_shrimp,
     breakdown_kgco2e |-> r.breakdown_kgco2e]

\* C25: estimate is a function of its request alone: a call that has
\* returned or failed while another caller's call was in progress, in any
\* interleaving of the two, has the outcome of that call run alone, and
\* two calls with equal requests have equal outcomes.
C25_CallsAreIndependent ==
    LET ended(f) == f.pc \in {"done", "failed"} IN
    /\ ended(Frame) => Frame = estimate(inputs)
    /\ peer # NoneRec =>
           /\ ended(peer.frame) => peer.frame = estimate(peer.inputs)
           /\ (ended(Frame) /\ ended(peer.frame) /\ inputs = peer.inputs) =>
                  peer.frame = Frame

C25_Witness ==
    /\ Accepted
    /\ peer # NoneRec
    /\ peer.frame.pc = "done"
    /\ peer.inputs # inputs
    /\ peer.inputs.total_feed_kg = None
    /\ inputs.total_feed_kg = Q(2)
    /\ "feed" \notin DOMAIN peer.frame.result.breakdown_kgco2e
    /\ peer.frame.result.total_kgco2e # result.total_kgco2e

\* C26: the result shares nothing with the request: whatever the caller
\* assigns to the audit record it was handed, a second estimate on the
\* same request returns the figures of the first.
C26_ResultSharesNothingWithRequest ==
    (history # << >> /\ pc \in {"done", "failed"}) =>
        /\ pc = "done"
        /\ Figures(result) = Figures(history[1])

RECURSIVE Allocated(_, _)
\* The luluc entries of the first n kept results, added up.
Allocated(h, n) ==
    IF n = 0 THEN Zero ELSE Add(Allocated(h, n - 1), h[n].breakdown_kgco2e["luluc"])

C28_TomReportedOnlyWhenUsed ==
    PondOk =>
        LET audit == resolved_inputs["pond_ch4_n2o"] IN
        audit.method_tier_used # "tier2_tom_scaled" => audit.tom_used = NoneRec

\* 1 + a x / (x + k), x the concentration above the floor.
Multiplier(p, om, a) ==
    LET x == IF Lt(p.tom_om_min_mg_l, om) THEN Sub(om, p.tom_om_min_mg_l) ELSE Zero
    IN  Add(One, Div(Mul(a, x), Add(x, p.tom_k_mg_l)))

\* The tier-1 factor of a gas: its override when supplied, else the
\* default of the farming-intensity class.
Tier1(p, override, table) == IF override # None THEN override ELSE table[p.system_type]

\* C29: with tier measured the factors used are the measured rates, and
\* the overrides and the organic-matter data have no effect on the result;
\* with tier default each gas uses its own override when supplied, else
\* the class default; with tier organic-matter-scaled each tier-1 factor is
\* multiplied by its multiplier, methane at the high percentile only when
\* that is enabled and the value supplied, else at the average.
C29_PondFactorSelection ==
    PondOk =>
        LET p == inputs.pond_ghg
            used == resolved_inputs["pond_ch4_n2o"].efs_used_g_m2_day
            bare == [p EXCEPT !.ch4_ef_g_m2_day = None, !.n2o_ef_g_m2_day = None,
                              !.tom = NoneRec]
            om_for_ch4 == IF p.tom_use_p90_for_ch4 /\ p.tom.om_p90_mg_l # None
                          THEN p.tom.om_p90_mg_l ELSE p.tom.om_avg_mg_l
        IN  CASE p.method_tier = "tier3_measured" ->
                   /\ used = [ch4 |-> p.measured_ch4_g_m2_day, n2o |-> p.measured_n2o_g_m2_day]
                   /\ pond_ch4_n2o_mrv(bare, inputs.period, inputs.cycle_days).val.total_kgco2e
                          = breakdown["pond_ch4_n2o"]
              [] p.method_tier = "tier1_default" ->
                   /\ used.ch4 = Tier1(p, p.ch4_ef_g_m2_day, CH4_G_M2_DAY)
                   /\ used.n2o = Tier1(p, p.n2o_ef_g_m2_day, N2O_G_M2_DAY)
              [] p.method_tier = "tier2_tom_scaled" ->
                   /\ used.ch4 = Mul(Tier1(p, p.ch4_ef_g_m2_day, CH4_G_M2_DAY),
                                     Multiplier(p, om_for_ch4, p.tom_a_ch4))
                   /\ used.n2o = Mul(Tier1(p, p.n2o_ef_g_m2_day, N2O_G_M2_DAY),
                                     Multiplier(p, p.tom.om_avg_mg_l, p.tom_a_n2o))

C29_Witness ==
    /\ Accepted
    /\ inputs.period = "year"
    /\ PondOk
    /\ inputs.pond_ghg.method_tier = "tier2_tom_scaled"
    /\ inputs.pond_ghg.ch4_ef_g_m2_day = <<1, 20>>
    /\ inputs.pond_ghg.n2o_ef_g_m2_day = None
    /\ inputs.pond_ghg.tom = TOMSummary(Q(20), Q(60))
    /\ ~inputs.pond_ghg.tom_use_p90_for_ch4
    /\ inputs.pond_ghg.measured_ch4_g_m2_day = <<1, 10>>
    /\ resolved_inputs["pond_ch4_n2o"].efs_used_g_m2_day = [ch4 |-> <<7, 80>>, n2o |-> <<27, 2000>>]

\* The requests whose pumps and aerators draw equal energy from the same
\* source (grid, diesel or petrol) in the same country with the same
\* overrides, the heating values of the aerators at their defaults.
Paired(inp) ==
    /\ inp.pumping # NoneRec
    /\ inp.aeration # NoneRec
    /\ pumping_energy_kwh(inp.pumping).ok
    /\ pumping_energy_kwh(inp.pumping) = aeration_energy_kwh(inp.aeration)
    /\ inp.pumping.energy_source \in {"grid", "diesel", "petrol"}
    /\ inp.pumping.energy_source = inp.aeration.energy_source
    /\ inp.pumping.grid_country = inp.aeration.grid_country
    /\ inp.pumping.grid_ef_kgco2e_per_kwh = inp.aeration.grid_ef_kgco2e_per_kwh
    /\ inp.pumping.fuel_ef_kgco2e_per_liter = inp.aeration.fuel_ef_kgco2e_per_liter
    /\ inp.aeration.diesel_lhv_mj_per_liter = Q(36)
    /\ inp.aeration.petrol_lhv_mj_per_liter = <<171, 5>>

\* C30: for equal energy, source, country and overrides, and the heating
\* values of aeration at their defaults, pumping and aeration turn energy
\* into the same emissions, or both fail; on fuel that is
\* kWh x 3.6 / LHV x the per-liter factor, LHV 36.0 for diesel and 34.2 for
\* petrol.
C30_PumpingAndAerationConvertAlike ==
    ("pumping_emissions_kgco2e" \in invoked /\ Paired(inputs)) =>
        LET p == inputs.pumping
            e_kwh == pumping_energy_kwh(p).val
            aerated == aeration_emissions_kgco2e(inputs.aeration)
            lhv == IF p.energy_source = "diesel" THEN Q(36) ELSE <<171, 5>>
            per_liter == Applied(p.fuel_ef_kgco2e_per_liter,
                                 IF p.energy_source = "diesel" THEN <<66, 25>>
                                 ELSE <<231, 100>>)
        IN  /\ "pumping" \in DOMAIN breakdown <=> aerated.ok
            /\ "pumping" \in DOMAIN breakdown =>
                   /\ breakdown["pumping"] = aerated.val
                   /\ p.energy_source # "grid" =>
                          breakdown["pumping"] =
                              Mul(Div(Mul(e_kwh, <<18, 5>>), lhv), per_liter)
            /\ "aeration" \in DOMAIN breakdown =>
                   breakdown["aeration"] = breakdown["pumping"]

C30_Witness ==
    /\ Accepted
    /\ Paired(inputs)
    /\ inputs.period = "year"
    /\ inputs.pumping.energy_source = "diesel"
    /\ inputs.pumping.fuel_ef_kgco2e_per_liter = None
    /\ breakdown["pumping"] = Mul(<<7457, 100>>, <<66, 25>>)
    /\ breakdown["aeration"] = breakdown["pumping"]

====
